---- MODULE Spec2Model ----
(***************************************************************************)
(* Change detection and versioning core of wordpress-archiver.             *)
(*                                                                         *)
(* Strings are sequences of tokens; a token is an indivisible fragment of  *)
(* HTML (a whole tag, a word, one entity, one blank).  The regular         *)
(* expressions of ContentProcessor.dynamic_patterns are applied to such    *)
(* sequences exactly as re.sub applies them to the text: left to right,    *)
(* non-overlapping, one pass per pattern, patterns in list order.          *)
(***************************************************************************)
EXTENDS Integers, Sequences, FiniteSets, TLC

\* ------------------------------------------------------------------------
\* Bounds
\* ------------------------------------------------------------------------
MaxWpId == 2
MaxPageLen == 2
MaxPages == 2
MaxLimit == 2
MaxItems == 3
MaxComments == 2
MaxTaped == 2
MaxDay == 2
MaxRawLen == 4

\* ------------------------------------------------------------------------
\* Tokens
\* ------------------------------------------------------------------------
Blank == " "

TextTokens == {"Hello", "World", "X"}

\* opening tags that <div[^>]*> matches
DivOpenTokens ==
  { "<div>", "<div >",
    "<div class=\"sharethis-inline\">",
    "<div class='sharethis-inline'>",
    "<div class=\"adsbygoogle\">",
    "<div class=\"wp-block-group\">",
    "<div style=\"c\">",
    "<div data-id=\"7\">" }

SpanOpenTokens == { "<span>", "<span >", "<span style=\"c\">" }

\* <div[^>]*class="[^"]*sharethis[^"]*"[^>]*>
SharethisOpen == { "<div class=\"sharethis-inline\">" }

\* <div[^>]*class="[^"]*(?:social-share|share-buttons|social-media)[^"]*"[^>]*>
SocialOpen == {}

\* <div[^>]*class="[^"]*(?:adsbygoogle|advertisement|ad-container)[^"]*"[^>]*>
AdOpen == { "<div class=\"adsbygoogle\">" }

\* <script[^>]*>
ScriptOpen == { "<script>" }

\* <div[^>]*class="[^"]*wp-block[^"]*"[^>]*>
WpBlockClassOpen == { "<div class=\"wp-block-group\">" }

\* <div[^>]*id="[^"]*wp-block[^"]*"[^>]*>
WpBlockIdOpen == {}

\* <div[^>]*class="[^"]*(?:analytics|tracking|gtag)[^"]*"[^>]*>
AnalyticsOpen == {}

\* <time[^>]*datetime="[^"]*"[^>]*>
TimeOpen == { "<time datetime=\"d\">" }

\* text that reads like an attribute: a line of a code sample
SampleTokens == { "style=\"a\"", "style=\"b\"" }

\* style="[^"]*" replaced by the empty string inside a token
StripStyle(t) ==
  CASE t \in SampleTokens -> ""
    [] t = "<div style=\"c\">"  -> "<div >"
    [] t = "<span style=\"c\">" -> "<span >"
    [] t = "<p style=\"c\">"    -> "<p >"
    [] OTHER -> t

\* data-[^=]*="[^"]*" replaced by the empty string inside a token
StripData(t) ==
  CASE t = "<div data-id=\"7\">" -> "<div >"
    [] OTHER -> t

\* id="[^"]*[0-9]{10,}[^"]*" replaced by the empty string inside a token
StripDynamicId(t) ==
  CASE t = "<p id=\"x1234567890\">" -> "<p >"
    [] OTHER -> t

\* class="[^"]*[0-9]{10,}[^"]*" replaced by the empty string inside a token
StripDynamicClass(t) ==
  CASE t = "<p class=\"c1234567890\">" -> "<p >"
    [] OTHER -> t

\* html.unescape on one token
Unescape(t) ==
  CASE t = "&amp;"  -> "&"
    [] t = "&#38;"  -> "&"
    [] t = "&lt;script&gt;"  -> "<script>"
    [] t = "&lt;/script&gt;" -> "</script>"
    [] t = "&nbsp;" -> "\\xa0"
    [] OTHER -> t

\* what \s matches: the blank and, after unescape, the no-break space
IsSpace(t) == t \in { Blank, "\\xa0" }

Token ==
  TextTokens \cup SampleTokens \cup DivOpenTokens \cup SpanOpenTokens
  \cup ScriptOpen \cup TimeOpen
  \cup { Blank, "</div>", "</span>", "</script>", "</time>", "<pre>", "</pre>",
         "<p>", "</p>", "<p >", "<p style=\"c\">",
         "<p id=\"x1234567890\">", "<p class=\"c1234567890\">",
         "&", "&amp;", "&#38;", "&nbsp;", "\\xa0",
         "&lt;script&gt;", "&lt;/script&gt;" }

\* ------------------------------------------------------------------------
\* re.sub at token level
\* ------------------------------------------------------------------------
\* index of the first occurrence of close in s at or after position i, 0 if none
RECURSIVE FirstClose(_, _, _)
FirstClose(s, close, i) ==
  IF i > Len(s) THEN 0
  ELSE IF s[i] = close THEN i
  ELSE FirstClose(s, close, i + 1)

\* re.sub(r'OPEN.*?CLOSE', '', s, flags=DOTALL): at each position where the
\* opening tag matches and the closing tag occurs later, drop through the
\* first closing tag and resume after it
RECURSIVE SubBlock(_, _, _)
SubBlock(s, open, close) ==
  IF s = <<>> THEN <<>>
  ELSE LET j == IF Head(s) \in open THEN FirstClose(s, close, 2) ELSE 0
       IN IF j > 0
          THEN SubBlock(SubSeq(s, j + 1, Len(s)), open, close)
          ELSE <<Head(s)>> \o SubBlock(Tail(s), open, close)

\* index of the closing tag when s[i..] is \s*CLOSE, 0 otherwise
RECURSIVE BlankThenClose(_, _, _)
BlankThenClose(s, close, i) ==
  IF i > Len(s) THEN 0
  ELSE IF s[i] = close THEN i
  ELSE IF IsSpace(s[i]) THEN BlankThenClose(s, close, i + 1)
  ELSE 0

\* re.sub(r'OPEN\s*CLOSE', '', s)
RECURSIVE SubEmptyShell(_, _, _)
SubEmptyShell(s, open, close) ==
  IF s = <<>> THEN <<>>
  ELSE LET j == IF Head(s) \in open THEN BlankThenClose(s, close, 2) ELSE 0
       IN IF j > 0
          THEN SubEmptyShell(SubSeq(s, j + 1, Len(s)), open, close)
          ELSE <<Head(s)>> \o SubEmptyShell(Tail(s), open, close)

\* the text without the tokens of which nothing is left
RECURSIVE Squeeze(_)
Squeeze(s) ==
  IF s = <<>> THEN <<>>
  ELSE (IF Head(s) = "" THEN <<>> ELSE << Head(s) >>) \o Squeeze(Tail(s))

\* re.sub of an attribute pattern, and html.unescape: every token is
\* rewritten in place
SubStyle(s) == Squeeze([i \in 1..Len(s) |-> StripStyle(s[i])])

SubData(s) == [i \in 1..Len(s) |-> StripData(s[i])]

SubDynamicId(s) == [i \in 1..Len(s) |-> StripDynamicId(s[i])]

SubDynamicClass(s) == [i \in 1..Len(s) |-> StripDynamicClass(s[i])]

UnescapeAll(s) == [i \in 1..Len(s) |-> Unescape(s[i])]

\* re.sub(r'\s+', ' ', s)
RECURSIVE CollapseSpace(_)
CollapseSpace(s) ==
  IF s = <<>> THEN <<>>
  ELSE IF IsSpace(Head(s))
       THEN IF Len(s) > 1 /\ IsSpace(s[2])
            THEN CollapseSpace(Tail(s))
            ELSE <<Blank>> \o CollapseSpace(Tail(s))
       ELSE <<Head(s)>> \o CollapseSpace(Tail(s))

\* str.strip()
RECURSIVE StripLeft(_)
StripLeft(s) ==
  IF s # <<>> /\ IsSpace(Head(s)) THEN StripLeft(Tail(s)) ELSE s

RECURSIVE StripRight(_)
StripRight(s) ==
  IF s # <<>> /\ IsSpace(s[Len(s)]) THEN StripRight(SubSeq(s, 1, Len(s) - 1)) ELSE s

Strip(s) == StripRight(StripLeft(s))

\* ------------------------------------------------------------------------
\* ContentProcessor
\* ------------------------------------------------------------------------
\* the loop over self.dynamic_patterns, in list order
ApplyDynamicPatterns(content) ==
  LET s1  == SubBlock(content, SharethisOpen, "</div>")
      s2  == SubBlock(s1, SocialOpen, "</div>")
      s3  == SubBlock(s2, AdOpen, "</div>")
      s4  == SubBlock(s3, ScriptOpen, "</script>")
      s5  == SubStyle(s4)
      s6  == SubData(s5)
      s7  == SubEmptyShell(s6, DivOpenTokens, "</div>")
      s8  == SubEmptyShell(s7, SpanOpenTokens, "</span>")
      s9  == SubBlock(s8, WpBlockClassOpen, "</div>")
      s10 == SubBlock(s9, WpBlockIdOpen, "</div>")
      s11 == SubBlock(s10, AnalyticsOpen, "</div>")
      s12 == SubBlock(s11, TimeOpen, "</time>")
      s13 == SubDynamicId(s12)
      s14 == SubDynamicClass(s13)
  IN s14

normalize_content(content) ==
  IF content = <<>> THEN <<>>
  ELSE Strip(CollapseSpace(UnescapeAll(ApplyDynamicPatterns(content))))

\* hashlib.sha256(normalized.encode('utf-8')).hexdigest(): injective on the
\* normalized text
sha256(normalized) == <<"sha256", normalized>>

\* the texts the remote serves
BodyHello == <<"<p>", "Hello", "</p>">>
BodyHelloShare == BodyHello \o <<"<div class=\"sharethis-inline\">", "X", "</div>">>
BodyHelloShareSQ == BodyHello \o <<"<div class='sharethis-inline'>", "X", "</div>">>
BodyHelloStyled == <<"<p style=\"c\">", "Hello", "</p>">>
BodyWorld == <<"<p>", "World", "</p>">>

\* a code sample, before and after an edit of its text
BodySampleA == <<"<pre>", "style=\"a\"", "</pre>">>
BodySampleB == <<"<pre>", "style=\"b\"", "</pre>">>

\* <p>Hello</p> and the same text with markup that carries no content
NoisyBodies == {BodyHello, BodyHelloShare, BodyHelloShareSQ, BodyHelloStyled}

Bodies == {BodyHello, BodyHelloShare, BodyWorld}

Names == {<<"Hello">>, <<"World">>}

\* the digests of the texts the remote serves, computed once
Digest == [c \in Bodies \cup NoisyBodies \cup Names |-> sha256(normalize_content(c))]

calculate_content_hash(content) ==
  IF content \in DOMAIN Digest THEN Digest[content]
  ELSE sha256(normalize_content(content))

\* archiver.py, the single-file archiver: normalize_content has the first
\* eight substitutions only
legacy_normalize_content(content) ==
  IF content = <<>> THEN <<>>
  ELSE LET s1 == SubBlock(content, SharethisOpen, "</div>")
           s2 == SubBlock(s1, SocialOpen, "</div>")
           s3 == SubBlock(s2, AdOpen, "</div>")
           s4 == SubBlock(s3, ScriptOpen, "</script>")
           s5 == SubStyle(s4)
           s6 == SubData(s5)
           s7 == SubEmptyShell(s6, DivOpenTokens, "</div>")
           s8 == SubEmptyShell(s7, SpanOpenTokens, "</span>")
       IN Strip(CollapseSpace(UnescapeAll(s8)))

LegacyDigest == [c \in Bodies \cup Names |-> sha256(legacy_normalize_content(c))]

legacy_calculate_content_hash(content) ==
  IF content \in DOMAIN LegacyDigest THEN LegacyDigest[content]
  ELSE sha256(legacy_normalize_content(content))

\* ------------------------------------------------------------------------
\* Remote items and responses
\* ------------------------------------------------------------------------
None == <<>>
Some(x) == <<x>>

Kinds == {"posts", "tags", "users"}

WpIds == 1..MaxWpId

\* a remote item is a key/value map; any key may be absent
PostItems ==
  { [id |-> i, content |-> b] : i \in WpIds, b \in Bodies }
  \cup { [content |-> BodyHello] }

TagItems ==
  { [id |-> i, name |-> n] : i \in WpIds, n \in Names }
  \cup { [name |-> <<"Hello">>] }

UserItems == { [id |-> i, name |-> <<"Hello">>] : i \in WpIds }

ItemsOf(ct) ==
  CASE ct = "posts" -> PostItems
    [] ct = "tags" -> TagItems
    [] OTHER -> UserItems

\* one post that every listing holds, its body changing over time
ContendedItems == { [id |-> 1, content |-> b] : b \in Bodies }

\* what the listings of a taped run hold: a post in three renderings, two of
\* them with the same text, a second post, and an item without id
TapedItems ==
  { [id |-> 1, content |-> b] : b \in Bodies }
  \cup { [id |-> 2, content |-> BodyHello], [content |-> BodyHello] }

\* the days the remote dates its posts with, and the filters after_date
Days == 1..MaxDay

AfterDates == { Some(d) : d \in Days \ {1} }

\* one post, with an old or a new text, dated before the filter or not
DatedItems ==
  { [id |-> 1, content |-> b, date |-> d] : b \in {BodyHello, BodyWorld}, d \in Days }

\* one post of day 1, with an old or a new text
StaleItems ==
  { [id |-> 1, content |-> b, date |-> 1] : b \in {BodyHello, BodyWorld} }

\* one post under varying titles, with an old or a new text
RetitledItems ==
  { [id |-> 1, title |-> t, content |-> b] : t \in Names, b \in {BodyHello, BodyWorld} }

\* raw HTML over a small alphabet: a tag pair, a noise element, markup in
\* entity encoding, a word and a blank
Alphabet ==
  { "<div>", "</div>", "<time datetime=\"d\">", "</time>",
    "&lt;script&gt;", "&lt;/script&gt;", "Hello", Blank }

RawInputs == UNION { [1..n -> Alphabet] : n \in 0..MaxRawLen }

\* one post with any such body
MarkupItems == { [id |-> 1, content |-> h] : h \in RawInputs }

\* one post whose text is edited between fetches
EditedItems ==
  { [id |-> 1, content |-> b] : b \in {BodyHello, BodySampleA, BodySampleB} }

\* one post, fetched again and again with the markup around its text varying
NoisyItems == { [id |-> 1, content |-> b] : b \in NoisyBodies }

\* WordPressResponse(data, total_count, total_pages_count).  What the remote
\* put into a response is drawn where archive_content first reads it: the
\* number of items on arrival (line 61), each item as the for loop reaches
\* it (line 66), total_pages_count at line 95.
PageLens == 0..MaxPageLen

TotalPages == 1..MaxPages

NoResponse == 0

\* line 89: consecutive pages without matching content that end the run
EmptyPagesAllowed == 10

\* wp_item.get(key, default)
Get(item, key, default) == IF key \in DOMAIN item THEN item[key] ELSE default

\* a date the remote reports is a day number; NoDate is the default ''
NoDate == 0

\* a Python dict, as distinct from a str; {} is the default of avatar_urls
Dict(entries) == [dict |-> entries]

EmptyDict == Dict(<<>>)

\* a name and a description, as texts of one-letter tokens: "ab" with "c",
\* "a" with "bc", and "a" with "c"
FieldSplits ==
  { << <<"a", "b">>, <<"c">> >>, << <<"a">>, <<"b", "c">> >>,
    << <<"a">>, <<"c">> >> }

\* well-formed users: id, name, url, description and the map of avatars
StaffItems ==
  { [id |-> i, name |-> f[1], description |-> f[2], url |-> <<"u">>,
     avatar_urls |-> Dict(<<"96", "u/96.png">>)] :
      i \in WpIds, f \in FieldSplits }

\* well-formed tags: id, name, description and slug
LabelItems ==
  { [id |-> i, name |-> f[1], description |-> f[2], slug |-> <<"s">>] :
      i \in WpIds, f \in FieldSplits }

\* faulty variant: the digest of a post covers its title as well
extract_title_and_body(wp_item, ct) ==
  CASE ct = "posts" ->
       [ wp_id |-> wp_item["id"],
         title |-> Get(wp_item, "title", <<>>),
         content |-> Get(wp_item, "content", <<>>),
         date_created |-> Get(wp_item, "date", NoDate),
         content_hash |-> calculate_content_hash(
             Get(wp_item, "title", <<>>) \o Get(wp_item, "content", <<>>)) ]
    [] ct = "users" ->
       [ wp_id |-> wp_item["id"],
         name |-> Get(wp_item, "name", <<>>),
         url |-> Get(wp_item, "url", <<>>),
         description |-> Get(wp_item, "description", <<>>),
         avatar_urls |-> Get(wp_item, "avatar_urls", EmptyDict),
         content_hash |-> calculate_content_hash(
             Get(wp_item, "name", <<>>) \o Get(wp_item, "description", <<>>)
               \o Get(wp_item, "url", <<>>)) ]
    [] OTHER ->
       [ wp_id |-> wp_item["id"],
         name |-> Get(wp_item, "name", <<>>),
         description |-> Get(wp_item, "description", <<>>),
         slug |-> Get(wp_item, "slug", <<>>),
         content_hash |-> calculate_content_hash(
             Get(wp_item, "name", <<>>) \o Get(wp_item, "description", <<>>)
               \o Get(wp_item, "slug", <<>>)) ]

\* ContentProcessor.extract_content_data, for an item that has its id; the
\* fields no decision reads (excerpt, status, links, counts) are left out
extract_content_data(wp_item, ct) ==
  CASE ct = "posts" ->
       [ wp_id |-> wp_item["id"],
         title |-> Get(wp_item, "title", <<>>),
         content |-> Get(wp_item, "content", <<>>),
         date_created |-> Get(wp_item, "date", NoDate),
         content_hash |-> calculate_content_hash(Get(wp_item, "content", <<>>)) ]
    [] ct = "users" ->
       [ wp_id |-> wp_item["id"],
         name |-> Get(wp_item, "name", <<>>),
         url |-> Get(wp_item, "url", <<>>),
         description |-> Get(wp_item, "description", <<>>),
         avatar_urls |-> Get(wp_item, "avatar_urls", EmptyDict),
         content_hash |-> calculate_content_hash(
             Get(wp_item, "name", <<>>) \o Get(wp_item, "description", <<>>)
               \o Get(wp_item, "url", <<>>)) ]
    [] OTHER ->
       [ wp_id |-> wp_item["id"],
         name |-> Get(wp_item, "name", <<>>),
         description |-> Get(wp_item, "description", <<>>),
         slug |-> Get(wp_item, "slug", <<>>),
         content_hash |-> calculate_content_hash(
             Get(wp_item, "name", <<>>) \o Get(wp_item, "description", <<>>)
               \o Get(wp_item, "slug", <<>>)) ]

\* the loop variable when no iteration is under way
NoItem == [nothing |-> 0]

\* ------------------------------------------------------------------------
\* DatabaseManager.  A table is the set of its rows: UNIQUE(wp_id, version)
\* makes every row distinct, and no query reads the rowid.
\* ------------------------------------------------------------------------
RowsOf(table, wp_id) == { r \in table : r.wp_id = wp_id }

\* faulty variant: ORDER BY version ASC LIMIT 1
LatestRowAscending(table, wp_id) ==
  CHOOSE r \in RowsOf(table, wp_id) :
    \A q \in RowsOf(table, wp_id) : r.version <= q.version

\* ORDER BY version DESC LIMIT 1
LatestRow(table, wp_id) ==
  CHOOSE r \in RowsOf(table, wp_id) :
    \A q \in RowsOf(table, wp_id) : q.version <= r.version

\* faulty variant: ORDER BY version ASC, the hash of the oldest version
OldestContentHash(table, wp_id) ==
  IF RowsOf(table, wp_id) = {} THEN None
  ELSE (CHOOSE r \in RowsOf(table, wp_id) :
          \A q \in RowsOf(table, wp_id) : r.version <= q.version).content_hash

get_content_hash(table, wp_id) ==
  IF RowsOf(table, wp_id) = {} THEN None
  ELSE LatestRow(table, wp_id).content_hash

get_latest_version(table, wp_id) ==
  IF RowsOf(table, wp_id) = {} THEN None
  ELSE Some(LatestRow(table, wp_id))

\* faulty variant: the table is created without the UNIQUE constraint
NoConstraint(table, wp_id, version) == FALSE

\* sqlite3 binds int, float, str, bytes and None; insert_content hands the
\* users statement data['avatar_urls'] as it is
Unbindable(data) ==
  "avatar_urls" \in DOMAIN data /\ DOMAIN data.avatar_urls = {"dict"}

\* UNIQUE(wp_id, version)
UniqueViolation(table, wp_id, version) ==
  \E r \in table : r.wp_id = wp_id /\ r.version = version

\* faulty variant: the row gets the digest of the text as fetched
RowOfRawDigest(data, version) ==
  [ f \in DOMAIN data \cup {"version"} |->
      CASE f = "version" -> version
        [] f = "content_hash" ->
             sha256(IF "content" \in DOMAIN data THEN data.content ELSE data.name)
        [] OTHER -> data[f] ]

\* the row INSERT INTO ... VALUES binds
RowOf(data, version) ==
  [ f \in DOMAIN data \cup {"version"} |->
      IF f = "version" THEN version ELSE data[f] ]

\* faulty variant: INSERT OR REPLACE keyed on wp_id
InsertOrReplace(table, data, version) ==
  (table \ RowsOf(table, data.wp_id)) \cup { RowOf(data, version) }

\* DatabaseManager.insert_content when the INSERT succeeds
insert_content(table, data, version) == table \cup { RowOf(data, version) }

\* ------------------------------------------------------------------------
\* State
\* ------------------------------------------------------------------------
Writers == {1, 2}

VARIABLES
  db,                         \* the content tables: kind -> set of rows
  pc,                         \* position of each archive_content call
  content_type,               \* argument
  limit,                      \* argument: None or Some(n)
  after_date,                 \* argument: None or Some(day)
  stats,                      \* processed / new / updated / errors
  page,
  consecutive_empty_pages,
  response,                   \* len(response.data) of the page being processed
  idx,                        \* items of response.data the for loop has taken
  page_has_matching_content,
  item,                       \* the loop variable of line 66
  existing_hash,              \* local of _process_content_item
  new_version,                \* version handed to insert_content
  caught,                     \* class of the exception the except clause holds
  served,                     \* items the remote has delivered so far
  remote,                     \* the remote site: how it answers
  main,                       \* the command-line run: position and locals
  sessions,                   \* the rows of archive_sessions, oldest first
  txn                         \* rows written on an open connection, uncommitted

\* the arguments of a call
args == << content_type, limit, after_date >>

\* the locals of the page loop
loop == << page, consecutive_empty_pages, response, idx,
           page_has_matching_content >>

\* the locals of one iteration of the item loop
iter == << item, existing_hash, new_version, caught >>

\* what lies outside archive_content: the command line and its session log,
\* and the connection a with block of the single-file archiver holds open
host == << main, sessions, txn >>

vars == << db, pc, args, stats, loop, iter, served, remote, host >>

ZeroStats == [processed |-> 0, new |-> 0, updated |-> 0, errors |-> 0]

Limits == {None} \cup { Some(n) : n \in 1..MaxLimit }

\* Python truth value of an Optional[int]
\* faulty variant: the limit is tested with 'is not None'
TruthyNotNone(l) == l # None

Truthy(l) == l # None /\ l[1] # 0

\* line 51: the page size asked for when there is no limit, and at most
DefaultPerPage == 100

\* line 51: per_page = min(100, limit) if limit else 100
per_page(l) ==
  IF Truthy(l)
  THEN (IF l[1] < DefaultPerPage THEN l[1] ELSE DefaultPerPage)
  ELSE DefaultPerPage

Running(w) ==
  pc[w] \in {"fetch", "for", "item", "get_version", "insert", "except",
             "page_end"}

\* content_data of _process_content_item (line 128)
content_data(w) == extract_content_data(item[w], content_type[w])

\* ------------------------------------------------------------------------
\* The remote site behind WordPressAPI, by mode.
\*   "free":      every answer is arbitrary: the site may change at any time
\*   "contended": every listing holds the same post, which may change
\*   "noisy":     the site serves one post whose markup varies
\*   "record":    arbitrary answers, which are kept on tape
\*   "replay":    the taped answers again, in order
\*   "dated":     the site serves one post under varying dates, and lists it
\*                whatever after parameter the request carries; its tags
\*                are those of a free site
\*   "finite":    answers without end, every one of which reports a total
\*                of at most MaxPages pages
\*   "retitled":  the site serves one post, whose title is never that of
\*                the latest stored version
\*   "markup":    the site serves one post once, with any body over Alphabet
\*   "edited":    the site serves one post, whose text changes
\*   "stale":     the site serves one post dated day 1, before every filter,
\*                on pages without end: whatever after parameter the request
\*                carries, every answer holds items and reports two pages
\*                more than the empty-page guard allows
\* first is what the taped run returned.
\* ------------------------------------------------------------------------
\* no command-line run has begun
NoMain == [pc |-> "shell", content_types |-> <<>>, k |-> 0,
           all_stats |-> <<>>]

FreeRemote == [mode |-> "free", tape |-> <<>>, pos |-> 0, first |-> ZeroStats]

\* the answers the remote can give now to a read of the given kind
Offered(kind, universe) ==
  IF remote.mode = "replay"
  THEN IF remote.pos < Len(remote.tape) /\ remote.tape[remote.pos + 1].kind = kind
       THEN { remote.tape[remote.pos + 1].val }
       ELSE {}
  ELSE universe

\* the remote has given this answer
Deliver(kind, val) ==
  remote' = CASE remote.mode = "record" ->
                   [remote EXCEPT !.tape = Append(@, [kind |-> kind, val |-> val])]
              [] remote.mode = "replay" -> [remote EXCEPT !.pos = @ + 1]
              [] OTHER -> remote

\* the items a listing of this kind can hold
Catalogue(ct) ==
  CASE remote.mode = "noisy" -> NoisyItems
    [] remote.mode = "contended" -> ContendedItems
    [] remote.mode = "dated" /\ ct = "posts" -> DatedItems
    [] remote.mode = "markup" -> MarkupItems
    [] remote.mode = "edited" -> EditedItems
    [] remote.mode = "stale" -> StaleItems
    [] remote.mode = "staff" /\ ct = "users" -> StaffItems
    [] remote.mode = "staff" /\ ct = "tags" -> LabelItems
    [] remote.mode = "retitled" ->
         { it \in RetitledItems :
             RowsOf(db[ct], it.id) # {} =>
               LatestRow(db[ct], it.id).title # it.title }
    [] remote.mode \in {"record", "replay", "finite"} -> TapedItems
    [] OTHER -> ItemsOf(ct)

\* the state before the first call, with the remote in the given mode
Fresh(mode) ==
  /\ db = [k \in Kinds |-> {}]
  /\ pc = [w \in Writers |-> "idle"]
  /\ content_type = [w \in Writers |-> "posts"]
  /\ limit = [w \in Writers |-> None]
  /\ after_date = [w \in Writers |-> None]
  /\ stats = [w \in Writers |-> ZeroStats]
  /\ page = [w \in Writers |-> 1]
  /\ consecutive_empty_pages = [w \in Writers |-> 0]
  /\ response = [w \in Writers |-> NoResponse]
  /\ idx = [w \in Writers |-> 0]
  /\ page_has_matching_content = [w \in Writers |-> FALSE]
  /\ item = [w \in Writers |-> NoItem]
  /\ existing_hash = [w \in Writers |-> None]
  /\ new_version = [w \in Writers |-> 1]
  /\ caught = [w \in Writers |-> "none"]
  /\ served = 0
  /\ remote = [FreeRemote EXCEPT !.mode = mode]
  /\ main = NoMain
  /\ sessions = <<>>
  /\ txn = [w \in Writers |-> {}]

Init == Fresh("free")

\* the iteration is over: its locals no longer matter
IterationOver(w) ==
  /\ item' = [item EXCEPT ![w] = NoItem]
  /\ existing_hash' = [existing_hash EXCEPT ![w] = None]
  /\ new_version' = [new_version EXCEPT ![w] = 1]
  /\ caught' = [caught EXCEPT ![w] = "none"]

\* archive_content is left: its frame no longer exists
FrameGone(w) ==
  /\ page' = [page EXCEPT ![w] = 1]
  /\ consecutive_empty_pages' = [consecutive_empty_pages EXCEPT ![w] = 0]
  /\ response' = [response EXCEPT ![w] = NoResponse]
  /\ idx' = [idx EXCEPT ![w] = 0]
  /\ page_has_matching_content' = [page_has_matching_content EXCEPT ![w] = FALSE]
  /\ IterationOver(w)

\* ------------------------------------------------------------------------
\* WordPressArchiver.archive_content
\* ------------------------------------------------------------------------
\* lines 46-54: a call begins
BeginArchive(w, ct, lim, ad) ==
  /\ ~Running(w)
  /\ pc' = [pc EXCEPT ![w] = "fetch"]
  /\ content_type' = [content_type EXCEPT ![w] = ct]
  /\ limit' = [limit EXCEPT ![w] = lim]
  /\ after_date' = [after_date EXCEPT ![w] = ad]
  /\ stats' = [stats EXCEPT ![w] = ZeroStats]
  /\ UNCHANGED << db, loop, iter, served >>

\* a call of a single writer: no other call is in progress
StartRun(w) ==
  /\ w = 1
  /\ remote.mode = "free"
  /\ \A v \in Writers : ~Running(v)
  /\ \E ct \in Kinds, lim \in Limits : BeginArchive(w, ct, lim, None)
  /\ UNCHANGED remote
  /\ UNCHANGED host

\* line 105: the call returns stats
Return(w) ==
  /\ pc' = [pc EXCEPT ![w] = "done"]
  /\ FrameGone(w)

\* the totals response.total_pages_count can report
Totals ==
  IF remote.mode = "stale" THEN {EmptyPagesAllowed + 2} ELSE TotalPages

\* the page lengths response.data can have
Lengths ==
  IF remote.mode = "stale" THEN PageLens \ {0} ELSE PageLens

\* the remote delivers no more than MaxItems items, MaxTaped when taped; a
\* replay delivers what was delivered before, a finite site whatever is asked
Quota(n) ==
  CASE remote.mode \in {"replay", "finite", "stale"} -> TRUE
    [] remote.mode = "record" -> served + n <= MaxTaped
    [] remote.mode = "markup" -> served + n <= 1
    [] OTHER -> served + n <= MaxItems

\* faulty variant: an empty page does not end the loop
FetchPageGoesOn(w) ==
  /\ pc[w] = "fetch"
  /\ \E n \in Offered("page", Lengths) :
       /\ Quota(n)
       /\ served' = IF remote.mode = "replay" THEN served ELSE served + n
       /\ Deliver("page", n)
       /\ response' = [response EXCEPT ![w] = n]
       /\ pc' = [pc EXCEPT ![w] = "for"]
       /\ idx' = [idx EXCEPT ![w] = 0]
       /\ page_has_matching_content' =
            [page_has_matching_content EXCEPT ![w] = FALSE]
       /\ UNCHANGED << page, consecutive_empty_pages, iter >>
  /\ UNCHANGED << db, args, stats >>
  /\ UNCHANGED host

\* lines 59-64: the page arrives; when it is empty the loop ends
FetchPage(w) ==
  /\ pc[w] = "fetch"
  /\ \E n \in Offered("page", Lengths) :
       /\ Quota(n)
       /\ served' = IF remote.mode = "replay" THEN served ELSE served + n
       /\ Deliver("page", n)
       /\ IF n = 0
          THEN Return(w)
          ELSE /\ response' = [response EXCEPT ![w] = n]
               /\ pc' = [pc EXCEPT ![w] = "for"]
               /\ idx' = [idx EXCEPT ![w] = 0]
               /\ page_has_matching_content' =
                    [page_has_matching_content EXCEPT ![w] = FALSE]
               /\ UNCHANGED << page, consecutive_empty_pages, iter >>
  /\ UNCHANGED << db, args, stats >>
  /\ UNCHANGED host

\* faulty variant: the handler starts the counters afresh
FetchFailsForgets(w) ==
  /\ pc[w] = "fetch"
  /\ Offered("fail", {TRUE}) # {}
  /\ Deliver("fail", TRUE)
  /\ stats' = [stats EXCEPT ![w] =
                [processed |-> 0, new |-> 0, updated |-> 0, errors |-> 1]]
  /\ Return(w)
  /\ UNCHANGED << db, args, served >>
  /\ UNCHANGED host

\* line 59 raises WordPressAPIError, lines 100-105
FetchFails(w) ==
  /\ pc[w] = "fetch"
  /\ Offered("fail", {TRUE}) # {}
  /\ Deliver("fail", TRUE)
  /\ stats' = [stats EXCEPT ![w].errors = @ + 1]
  /\ Return(w)
  /\ UNCHANGED << db, args, served >>
  /\ UNCHANGED host

\* line 66: the for loop takes the next item of response.data, or ends
ForLoop(w) ==
  /\ pc[w] = "for"
  /\ IF idx[w] < response[w]
     THEN \E it \in Offered("item", Catalogue(content_type[w])) :
            /\ Deliver("item", it)
            /\ item' = [item EXCEPT ![w] = it]
            /\ idx' = [idx EXCEPT ![w] = @ + 1]
            /\ pc' = [pc EXCEPT ![w] = "item"]
     ELSE /\ pc' = [pc EXCEPT ![w] = "page_end"]
          /\ UNCHANGED << item, idx, remote >>
  /\ UNCHANGED << db, args, stats, page, consecutive_empty_pages, response,
                  page_has_matching_content, existing_hash, new_version,
                  caught, served >>
  /\ UNCHANGED host

\* lines 74-76, after _process_content_item returned: break, or loop
CheckLimit(w) ==
  pc' = [pc EXCEPT ![w] =
           IF Truthy(limit[w]) /\ stats'[w].processed >= limit[w][1]
           THEN "page_end" ELSE "for"]

\* an exception of class cls leaves _process_content_item and reaches the
\* except clause of line 78
Raise(w, cls) ==
  /\ caught' = [caught EXCEPT ![w] = cls]
  /\ pc' = [pc EXCEPT ![w] = "except"]
  /\ existing_hash' = [existing_hash EXCEPT ![w] = None]
  /\ new_version' = [new_version EXCEPT ![w] = 1]
  /\ UNCHANGED item

\* faulty variant: the hash is looked up in one table that holds every kind
ProcessItemAnyKind(w) ==
  /\ pc[w] = "item"
  /\ page_has_matching_content' = [page_has_matching_content EXCEPT ![w] = TRUE]
  /\ stats' = [stats EXCEPT ![w].processed = @ + 1]
  /\ IF "id" \notin DOMAIN item[w]
     THEN Raise(w, "KeyError")
     ELSE LET h == get_content_hash(UNION { db[k] : k \in Kinds },
                                     content_data(w).wp_id)
          IN IF h = None
             THEN /\ existing_hash' = [existing_hash EXCEPT ![w] = h]
                  /\ new_version' = [new_version EXCEPT ![w] = 1]
                  /\ pc' = [pc EXCEPT ![w] = "insert"]
                  /\ UNCHANGED << item, caught >>
             ELSE IF h # content_data(w).content_hash
             THEN /\ existing_hash' = [existing_hash EXCEPT ![w] = h]
                  /\ pc' = [pc EXCEPT ![w] = "get_version"]
                  /\ UNCHANGED << item, new_version, caught >>
             ELSE /\ IterationOver(w)
                  /\ CheckLimit(w)
  /\ UNCHANGED << db, args, page, consecutive_empty_pages, response, idx,
                  served, remote >>
  /\ UNCHANGED host

\* lines 68-72 and 128-138: the item is counted and extracted, the latest
\* hash is read and compared
ProcessItem(w) ==
  /\ pc[w] = "item"
  /\ page_has_matching_content' = [page_has_matching_content EXCEPT ![w] = TRUE]
  /\ stats' = [stats EXCEPT ![w].processed = @ + 1]
  /\ IF "id" \notin DOMAIN item[w]
     THEN Raise(w, "KeyError")
     ELSE LET h == get_content_hash(db[content_type[w]], content_data(w).wp_id)
          IN IF h = None
             THEN /\ existing_hash' = [existing_hash EXCEPT ![w] = h]
                  /\ new_version' = [new_version EXCEPT ![w] = 1]
                  /\ pc' = [pc EXCEPT ![w] = "insert"]
                  /\ UNCHANGED << item, caught >>
             ELSE IF h # content_data(w).content_hash
             THEN /\ existing_hash' = [existing_hash EXCEPT ![w] = h]
                  /\ pc' = [pc EXCEPT ![w] = "get_version"]
                  /\ UNCHANGED << item, new_version, caught >>
             ELSE /\ IterationOver(w)
                  /\ CheckLimit(w)
  /\ UNCHANGED << db, args, page, consecutive_empty_pages, response, idx,
                  served, remote >>
  /\ UNCHANGED host

\* faulty variant: the next version skips a number
NewVersionSkips(latest_version) ==
  IF latest_version # None THEN latest_version[1].version + 2 ELSE 2

\* lines 140-141
NewVersion(latest_version) ==
  IF latest_version # None THEN latest_version[1].version + 1 ELSE 2

GetLatestVersion(w) ==
  /\ pc[w] = "get_version"
  /\ new_version' = [new_version EXCEPT ![w] =
       NewVersion(get_latest_version(db[content_type[w]], content_data(w).wp_id))]
  /\ pc' = [pc EXCEPT ![w] = "insert"]
  /\ UNCHANGED << db, args, stats, loop, item, existing_hash, caught, served,
                  remote >>
  /\ UNCHANGED host

\* faulty variant: every row written is counted as new
InsertContentCountsNew(w) ==
  /\ pc[w] = "insert"
  /\ ~Unbindable(content_data(w))
  /\ ~UniqueViolation(db[content_type[w]], content_data(w).wp_id, new_version[w])
  /\ db' = [db EXCEPT ![content_type[w]] =
              insert_content(@, content_data(w), new_version[w])]
  /\ stats' = [stats EXCEPT ![w].new = @ + 1]
  /\ IterationOver(w)
  /\ CheckLimit(w)
  /\ UNCHANGED << args, loop, served, remote >>
  /\ UNCHANGED host

\* lines 135-136 and 143-144: the INSERT commits and the counter rises
InsertContent(w) ==
  /\ pc[w] = "insert"
  /\ ~Unbindable(content_data(w))
  /\ ~UniqueViolation(db[content_type[w]], content_data(w).wp_id, new_version[w])
  /\ db' = [db EXCEPT ![content_type[w]] =
              insert_content(@, content_data(w), new_version[w])]
  /\ stats' = [stats EXCEPT ![w] =
       IF existing_hash[w] = None THEN [@ EXCEPT !.new = @ + 1]
                                  ELSE [@ EXCEPT !.updated = @ + 1]]
  /\ IterationOver(w)
  /\ CheckLimit(w)
  /\ UNCHANGED << args, loop, served, remote >>
  /\ UNCHANGED host

\* a parameter of the INSERT has a type sqlite3 does not bind:
\* sqlite3.InterfaceError, sqlite3.ProgrammingError from Python 3.11 on
BindingErrors == {"InterfaceError", "ProgrammingError"}

InsertBindingError(w) ==
  /\ pc[w] = "insert"
  /\ Unbindable(content_data(w))
  /\ \E cls \in BindingErrors : Raise(w, cls)
  /\ UNCHANGED << db, args, stats, loop, served, remote >>
  /\ UNCHANGED host

\* the INSERT violates UNIQUE(wp_id, version): sqlite3.IntegrityError
InsertIntegrityError(w) ==
  /\ pc[w] = "insert"
  /\ ~Unbindable(content_data(w))
  /\ UniqueViolation(db[content_type[w]], content_data(w).wp_id, new_version[w])
  /\ Raise(w, "IntegrityError")
  /\ UNCHANGED << db, args, stats, loop, served, remote >>
  /\ UNCHANGED host

\* the storage layer fails (locked or unwritable file): sqlite3.OperationalError
InsertStorageError(w) ==
  /\ pc[w] = "insert"
  /\ Raise(w, "OperationalError")
  /\ UNCHANGED << db, args, stats, loop, served, remote >>
  /\ UNCHANGED host

\* faulty variant: the handler gives up the rest of the page
HandleItemErrorAborts(w) ==
  /\ pc[w] = "except"
  /\ stats' = [stats EXCEPT ![w].errors = @ + 1]
  /\ IterationOver(w)
  /\ pc' = [pc EXCEPT ![w] = "page_end"]
  /\ UNCHANGED << db, args, loop, served, remote >>
  /\ UNCHANGED host

\* lines 78-80: the handler counts the error, the for loop goes on
HandleItemError(w) ==
  /\ pc[w] = "except"
  /\ stats' = [stats EXCEPT ![w].errors = @ + 1]
  /\ IterationOver(w)
  /\ pc' = [pc EXCEPT ![w] = "for"]
  /\ UNCHANGED << db, args, loop, served, remote >>
  /\ UNCHANGED host

\* faulty variant: the next request asks for the same page
PageEndStays(w) ==
  /\ pc[w] = "page_end"
  /\ IF Truthy(limit[w]) /\ stats[w].processed >= limit[w][1]
     THEN Return(w) /\ UNCHANGED remote
     ELSE \E total_pages_count \in Offered("total", Totals) :
          LET cep == IF ~page_has_matching_content[w]
                     THEN consecutive_empty_pages[w] + 1 ELSE 0
          IN /\ Deliver("total", total_pages_count)
             /\ IF cep >= EmptyPagesAllowed \/ page[w] >= total_pages_count
                THEN Return(w)
                ELSE /\ consecutive_empty_pages' =
                          [consecutive_empty_pages EXCEPT ![w] = cep]
                     /\ pc' = [pc EXCEPT ![w] = "fetch"]
                     /\ UNCHANGED << page, response, idx,
                                     page_has_matching_content, iter >>
  /\ UNCHANGED << db, args, stats, served >>
  /\ UNCHANGED host

\* lines 82-98
PageEnd(w) ==
  /\ pc[w] = "page_end"
  /\ IF Truthy(limit[w]) /\ stats[w].processed >= limit[w][1]
     THEN Return(w) /\ UNCHANGED remote
     ELSE \E total_pages_count \in Offered("total", Totals) :
          LET cep == IF ~page_has_matching_content[w]
                     THEN consecutive_empty_pages[w] + 1 ELSE 0
          IN /\ Deliver("total", total_pages_count)
             /\ IF cep >= EmptyPagesAllowed \/ page[w] >= total_pages_count
                THEN Return(w)
                ELSE /\ consecutive_empty_pages' =
                          [consecutive_empty_pages EXCEPT ![w] = cep]
                     /\ pc' = [pc EXCEPT ![w] = "fetch"]
                     /\ page' = [page EXCEPT ![w] = @ + 1]
                     /\ UNCHANGED << response, idx, page_has_matching_content,
                                     iter >>
  /\ UNCHANGED << db, args, stats, served >>
  /\ UNCHANGED host

\* KeyboardInterrupt is no Exception: it leaves archive_content at once and
\* nothing is returned
Interrupt(w) ==
  /\ Running(w)
  /\ pc' = [pc EXCEPT ![w] = "interrupted"]
  /\ stats' = [stats EXCEPT ![w] = ZeroStats]
  /\ FrameGone(w)
  /\ UNCHANGED << db, args, served, remote >>
  /\ UNCHANGED host

\* the steps of a call that runs to its end, for the kinds whose rows hold
\* nothing but numbers and strings
RunStep(w) ==
  \/ FetchPage(w)
  \/ FetchFails(w)
  \/ ForLoop(w)
  \/ ProcessItem(w)
  \/ GetLatestVersion(w)
  \/ InsertContent(w)
  \/ InsertStorageError(w)
  \/ HandleItemError(w)
  \/ PageEnd(w)

\* archive runs of one writer, one after the other.  InsertIntegrityError
\* is no step of these: the version a single writer computes is 1 for an id
\* without rows and latest + 1 otherwise, which no row of the id has.
Next ==
  \E w \in Writers :
    \/ StartRun(w)
    \/ RunStep(w)
    \/ InsertBindingError(w)
    \/ Interrupt(w)

Spec == Init /\ [][Next]_vars

\* ------------------------------------------------------------------------
\* Two archivers on one database file.  Every DatabaseManager operation
\* opens its own connection (get_connection) and commits on its own, so the
\* steps of the two calls interleave between any two operations.  Both
\* archive posts without limit, each once, from listings of the same post.
\* ------------------------------------------------------------------------
StartConcurrent(w) ==
  /\ remote.mode = "contended"
  /\ pc[w] = "idle"
  /\ w = 2 => pc[1] # "idle"
  /\ BeginArchive(w, "posts", None, None)
  /\ UNCHANGED remote
  /\ UNCHANGED host

ConcNext ==
  \E w \in Writers :
    \/ StartConcurrent(w)
    \/ RunStep(w)
    \/ InsertIntegrityError(w)

SpecConc == Fresh("contended") /\ [][ConcNext]_vars

\* ------------------------------------------------------------------------
\* A run and its repetition against a remote that answers as before.  The
\* first of the two runs is taped; the second gets the taped answers.
\* ------------------------------------------------------------------------
StartRecorded(w) ==
  /\ w = 1
  /\ remote.mode = "record"
  /\ pc[w] = "idle"
  /\ \E lim \in Limits : BeginArchive(w, "posts", lim, None)
  /\ UNCHANGED remote
  /\ UNCHANGED host

\* the same call again, once the taped run has returned
StartReplay(w) ==
  /\ w = 1
  /\ remote.mode = "record"
  /\ pc[w] = "done"
  /\ remote' = [remote EXCEPT !.mode = "replay", !.pos = 0, !.first = stats[w]]
  /\ BeginArchive(w, content_type[w], limit[w], after_date[w])
  /\ UNCHANGED host

RerunNext ==
  \E w \in Writers :
    \/ StartRecorded(w)
    \/ StartReplay(w)
    \/ RunStep(w)

SpecRerun == Fresh("record") /\ [][RerunNext]_vars

\* ------------------------------------------------------------------------
\* A run without limit and then a run with limit = 0 against a remote that
\* answers as before
\* ------------------------------------------------------------------------
StartAbsent(w) ==
  /\ w = 1
  /\ remote.mode = "record"
  /\ pc[w] = "idle"
  /\ BeginArchive(w, "posts", None, None)
  /\ UNCHANGED remote
  /\ UNCHANGED host

\* archive_content(api, 'posts', limit=0), once the taped run has returned
StartZero(w) ==
  /\ w = 1
  /\ remote.mode = "record"
  /\ pc[w] = "done"
  /\ remote' = [remote EXCEPT !.mode = "replay", !.pos = 0, !.first = stats[w]]
  /\ BeginArchive(w, "posts", Some(0), None)
  /\ UNCHANGED host

ZeroNext ==
  \E w \in Writers :
    \/ StartAbsent(w)
    \/ StartZero(w)
    \/ RunStep(w)

SpecZero == Fresh("record") /\ [][ZeroNext]_vars

\* ------------------------------------------------------------------------
\* Runs against a site that serves one post with varying markup
\* ------------------------------------------------------------------------
StartNoisy(w) ==
  /\ w = 1
  /\ remote.mode = "noisy"
  /\ \A v \in Writers : ~Running(v)
  /\ BeginArchive(w, "posts", None, None)
  /\ UNCHANGED remote
  /\ UNCHANGED host

NoisyNext == \E w \in Writers : StartNoisy(w) \/ RunStep(w)

SpecNoise == Fresh("noisy") /\ [][NoisyNext]_vars

\* ------------------------------------------------------------------------
\* Runs against a site that serves one post and keeps changing its title
\* ------------------------------------------------------------------------
StartRetitled(w) ==
  /\ w = 1
  /\ remote.mode = "retitled"
  /\ \A v \in Writers : ~Running(v)
  /\ \E lim \in Limits : BeginArchive(w, "posts", lim, None)
  /\ UNCHANGED << remote, host >>

RetitledNext == \E w \in Writers : StartRetitled(w) \/ RunStep(w)

SpecRetitled == Fresh("retitled") /\ [][RetitledNext]_vars

\* ------------------------------------------------------------------------
\* The normalizer at work: one call of archive_content takes one post, of
\* any body, into an empty store that takes every write
\* ------------------------------------------------------------------------
StartMarkup(w) ==
  /\ w = 1
  /\ remote.mode = "markup"
  /\ pc[w] = "idle"
  /\ BeginArchive(w, "posts", None, None)
  /\ UNCHANGED << remote, host >>

MarkupNext ==
  \E w \in Writers :
    \/ StartMarkup(w)
    \/ FetchPage(w)
    \/ ForLoop(w)
    \/ ProcessItem(w)
    \/ InsertContent(w)
    \/ PageEnd(w)

SpecMarkup == Fresh("markup") /\ [][MarkupNext]_vars

\* ------------------------------------------------------------------------
\* Runs against a site that serves one post and edits its text
\* ------------------------------------------------------------------------
StartEdited(w) ==
  /\ w = 1
  /\ remote.mode = "edited"
  /\ \A v \in Writers : ~Running(v)
  /\ \E lim \in Limits : BeginArchive(w, "posts", lim, None)
  /\ UNCHANGED << remote, host >>

EditedNext == \E w \in Writers : StartEdited(w) \/ RunStep(w)

SpecEdited == Fresh("edited") /\ [][EditedNext]_vars

\* ------------------------------------------------------------------------
\* One run with after_date against a site all of whose posts are older
\* ------------------------------------------------------------------------
StartStale(w) ==
  /\ w = 1
  /\ remote.mode = "stale"
  /\ pc[w] = "idle"
  /\ \E ad \in AfterDates : BeginArchive(w, "posts", None, ad)
  /\ UNCHANGED << remote, host >>

StaleNext == \E w \in Writers : StartStale(w) \/ RunStep(w)

SpecStale == Fresh("stale") /\ [][StaleNext]_vars

\* ------------------------------------------------------------------------
\* DatabaseManager._calculate_comment_levels, statement by statement.  db
\* holds the list of comments read from the store, the levels assigned so
\* far and the locals level and current_parent; idx is the place in the list
\* ------------------------------------------------------------------------
\* line 1275: a parent_id of 0 is read as None; both are falsy
NoParent == 0

\* the comment lists a store can hold: the remote chooses every parent
CommentLists ==
  UNION { [1..n -> [wp_id : WpIds, parent_id : {NoParent} \cup WpIds]] :
            n \in 0..MaxComments }

\* line 1344: {c['wp_id']: c for c in comments}, a later comment of the same
\* wp_id replacing an earlier one
comment_dict(comments) ==
  [ i \in { comments[n].wp_id : n \in DOMAIN comments } |->
      comments[CHOOSE n \in DOMAIN comments :
                 /\ comments[n].wp_id = i
                 /\ \A m \in DOMAIN comments :
                      comments[m].wp_id = i => m <= n] ]

LevelsInit ==
  /\ \E cs \in CommentLists :
       db = [comments |-> cs, levels |-> <<>>, level |-> 0,
             current_parent |-> NoParent]
  /\ pc = [w \in Writers |-> IF w = 1 THEN "l_for" ELSE "idle"]
  /\ content_type = [w \in Writers |-> "posts"]
  /\ limit = [w \in Writers |-> None]
  /\ after_date = [w \in Writers |-> None]
  /\ stats = [w \in Writers |-> ZeroStats]
  /\ page = [w \in Writers |-> 1]
  /\ consecutive_empty_pages = [w \in Writers |-> 0]
  /\ response = [w \in Writers |-> NoResponse]
  /\ idx = [w \in Writers |-> 0]
  /\ page_has_matching_content = [w \in Writers |-> FALSE]
  /\ item = [w \in Writers |-> NoItem]
  /\ existing_hash = [w \in Writers |-> None]
  /\ new_version = [w \in Writers |-> 1]
  /\ caught = [w \in Writers |-> "none"]
  /\ served = 0
  /\ remote = FreeRemote
  /\ main = NoMain
  /\ sessions = <<>>
  /\ txn = [w \in Writers |-> {}]

\* what no statement of _calculate_comment_levels touches
LevelsFrame ==
  UNCHANGED << args, stats, page, consecutive_empty_pages, response,
               page_has_matching_content, iter, served, remote, host >>

\* lines 1345-1347: the next comment of the list
LevelsFor ==
  /\ pc[1] = "l_for"
  /\ idx[1] < Len(db.comments)
  /\ idx' = [idx EXCEPT ![1] = @ + 1]
  /\ db' = [db EXCEPT !.level = 0,
                      !.current_parent = db.comments[idx[1] + 1].parent_id]
  /\ pc' = [pc EXCEPT ![1] = "l_while"]
  /\ LevelsFrame

\* the test of line 1348
HasParentInList ==
  /\ db.current_parent # NoParent
  /\ db.current_parent \in DOMAIN comment_dict(db.comments)

\* lines 1348-1350: one round of the while loop; the model follows level no
\* further than one past MaxComments
LevelsClimb ==
  /\ pc[1] = "l_while"
  /\ HasParentInList
  /\ db.level <= MaxComments
  /\ db' = [db EXCEPT
              !.level = @ + 1,
              !.current_parent =
                 comment_dict(db.comments)[db.current_parent].parent_id]
  /\ UNCHANGED << pc, idx >>
  /\ LevelsFrame

\* line 1351: the while loop is left and the level assigned
LevelsAssign ==
  /\ pc[1] = "l_while"
  /\ ~HasParentInList
  /\ db' = [db EXCEPT !.levels = Append(@, db.level)]
  /\ pc' = [pc EXCEPT ![1] = "l_for"]
  /\ UNCHANGED idx
  /\ LevelsFrame

\* the list is exhausted: the function returns
LevelsReturn ==
  /\ pc[1] = "l_for"
  /\ idx[1] = Len(db.comments)
  /\ pc' = [pc EXCEPT ![1] = "l_done"]
  /\ UNCHANGED << db, idx >>
  /\ LevelsFrame

LevelsNext == LevelsFor \/ LevelsClimb \/ LevelsAssign \/ LevelsReturn

SpecLevels == LevelsInit /\ [][LevelsNext]_vars

\* ------------------------------------------------------------------------
\* Runs over the users and the tags of a site whose items are well-formed,
\* with a store that takes every statement it can bind
\* ------------------------------------------------------------------------
StartStaff(w) ==
  /\ w = 1
  /\ remote.mode = "staff"
  /\ \A v \in Writers : ~Running(v)
  /\ \E ct \in {"users", "tags"} : BeginArchive(w, ct, None, None)
  /\ UNCHANGED << remote, host >>

StaffNext ==
  \E w \in Writers :
    \/ StartStaff(w)
    \/ FetchPage(w)
    \/ FetchFails(w)
    \/ ForLoop(w)
    \/ ProcessItem(w)
    \/ GetLatestVersion(w)
    \/ InsertContent(w)
    \/ InsertBindingError(w)
    \/ HandleItemError(w)
    \/ PageEnd(w)

SpecStaff == Fresh("staff") /\ [][StaffNext]_vars

\* ------------------------------------------------------------------------
\* Runs with after_date against a site that lists posts of any date
\* ------------------------------------------------------------------------
StartDated(w) ==
  /\ w = 1
  /\ remote.mode = "dated"
  /\ \A v \in Writers : ~Running(v)
  /\ \E lim \in Limits, ad \in AfterDates : BeginArchive(w, "posts", lim, ad)
  /\ UNCHANGED << remote, host >>

DatedNext == \E w \in Writers : StartDated(w) \/ RunStep(w)

SpecDated == Fresh("dated") /\ [][DatedNext]_vars

\* ------------------------------------------------------------------------
\* One call of archive_content against a site that never runs out of items.
\* The interpreter runs the call on: a step that can be taken is taken.
\* ------------------------------------------------------------------------
StartFinite(w) ==
  /\ w = 1
  /\ remote.mode = "finite"
  /\ pc[w] = "idle"
  /\ \E lim \in Limits : BeginArchive(w, "posts", lim, None)
  /\ UNCHANGED << remote, host >>

TermStep == RunStep(1)

TermNext == StartFinite(1) \/ TermStep

SpecTerm == Fresh("finite") /\ [][TermNext]_vars /\ WF_vars(TermStep)

\* ------------------------------------------------------------------------
\* archiver.py, the single-file archiver: WordPressArchiver.archive_posts,
\* archive_tags and archive_users.  The three share one shape; only posts
\* have the date filter, and the row and the hash differ by kind.
\* ------------------------------------------------------------------------
LegacyRunning(w) ==
  pc[w] \in {"l_fetch", "l_for", "l_post", "l_commit", "l_except",
             "l_page_end"}

\* lines 258-275: a date that does not parse ('' among them) passes
is_date_after_filter(item_date, ad) ==
  IF ad = None THEN TRUE
  ELSE IF item_date = NoDate THEN TRUE
  ELSE item_date >= ad[1]

\* lines 279-280: a call begins
LegacyBegin(w, ct, lim, ad) ==
  /\ pc' = [pc EXCEPT ![w] = "l_fetch"]
  /\ content_type' = [content_type EXCEPT ![w] = ct]
  /\ limit' = [limit EXCEPT ![w] = lim]
  /\ after_date' = [after_date EXCEPT ![w] = ad]
  /\ stats' = [stats EXCEPT ![w] = ZeroStats]
  /\ UNCHANGED << db, loop, iter, served >>

\* archive_posts called on its own, no command-line run around it
archive_posts(w, lim, ad) ==
  /\ w = 1
  /\ remote.mode \in {"free", "dated"}
  /\ main.pc = "shell"
  /\ \A v \in Writers : ~LegacyRunning(v)
  /\ LegacyBegin(w, "posts", lim, ad)
  /\ UNCHANGED << remote, host >>

LegacyStart(w) ==
  \E lim \in Limits :
    \E ad \in (IF remote.mode = "dated" THEN AfterDates ELSE {None}) :
      archive_posts(w, lim, ad)

\* lines 284-287
LegacyFetch(w) ==
  /\ pc[w] = "l_fetch"
  /\ \E n \in PageLens :
       /\ Quota(n)
       /\ served' = served + n
       /\ IF n = 0
          THEN Return(w)
          ELSE /\ response' = [response EXCEPT ![w] = n]
               /\ pc' = [pc EXCEPT ![w] = "l_for"]
               /\ idx' = [idx EXCEPT ![w] = 0]
               /\ UNCHANGED << page, consecutive_empty_pages,
                               page_has_matching_content, iter >>
  /\ UNCHANGED << db, args, stats, remote, host >>

\* line 284 raises, lines 371-375
LegacyFetchFails(w) ==
  /\ pc[w] = "l_fetch"
  /\ stats' = [stats EXCEPT ![w].errors = @ + 1]
  /\ Return(w)
  /\ UNCHANGED << db, args, served, remote, host >>

\* line 289: the for loop takes the next item, or ends
LegacyForLoop(w) ==
  /\ pc[w] = "l_for"
  /\ IF idx[w] < response[w]
     THEN \E post \in Catalogue(content_type[w]) :
            /\ item' = [item EXCEPT ![w] = post]
            /\ idx' = [idx EXCEPT ![w] = @ + 1]
            /\ pc' = [pc EXCEPT ![w] = "l_post"]
     ELSE /\ pc' = [pc EXCEPT ![w] = "l_page_end"]
          /\ UNCHANGED << item, idx >>
  /\ UNCHANGED << db, args, stats, page, consecutive_empty_pages, response,
                  page_has_matching_content, existing_hash, new_version,
                  caught, served, remote, host >>

\* the text the hash is taken of: lines 299, 599 and 789
LegacyHashed(it, ct) ==
  CASE ct = "posts" -> Get(it, "content", <<>>)
    [] ct = "users" -> Get(it, "name", <<>>) \o Get(it, "description", <<>>)
                         \o Get(it, "url", <<>>)
    [] OTHER -> Get(it, "name", <<>>) \o Get(it, "description", <<>>)
                  \o Get(it, "slug", <<>>)

\* json.dumps of a dict: a str
json_dumps(d) == << "json", d >>

\* the row the INSERT statements bind
LegacyRow(it, ct, content_hash, version) ==
  CASE ct = "posts" ->
       [ wp_id |-> it["id"],
         content |-> Get(it, "content", <<>>),
         date_created |-> Get(it, "date", NoDate),
         content_hash |-> content_hash,
         version |-> version ]
    [] ct = "users" ->
       [ wp_id |-> it["id"],
         name |-> Get(it, "name", <<>>),
         url |-> Get(it, "url", <<>>),
         description |-> Get(it, "description", <<>>),
         avatar_urls |-> json_dumps(Get(it, "avatar_urls", EmptyDict)),
         content_hash |-> content_hash,
         version |-> version ]
    [] OTHER ->
       [ wp_id |-> it["id"],
         name |-> Get(it, "name", <<>>),
         description |-> Get(it, "description", <<>>),
         slug |-> Get(it, "slug", <<>>),
         content_hash |-> content_hash,
         version |-> version ]

\* lines 291-356: the date filter, then SELECT and INSERT on one connection;
\* the row waits for the commit
LegacyProcessPost(w) ==
  /\ pc[w] = "l_post"
  /\ LET ct == content_type[w] IN
     IF ct = "posts"
        /\ ~is_date_after_filter(Get(item[w], "date", NoDate), after_date[w])
     THEN /\ pc' = [pc EXCEPT ![w] = "l_for"]
          /\ IterationOver(w)
          /\ UNCHANGED << stats, txn >>
     ELSE IF "id" \notin DOMAIN item[w]
     THEN /\ stats' = [stats EXCEPT ![w].processed = @ + 1]
          /\ caught' = [caught EXCEPT ![w] = "KeyError"]
          /\ pc' = [pc EXCEPT ![w] = "l_except"]
          /\ UNCHANGED << item, existing_hash, new_version, txn >>
     ELSE LET content_hash ==
                legacy_calculate_content_hash(LegacyHashed(item[w], ct))
              existing == get_latest_version(db[ct], item[w]["id"])
              version == IF existing = None THEN 1 ELSE existing[1].version + 1
              changed == existing = None \/ existing[1].content_hash # content_hash
          IN /\ stats' = [stats EXCEPT
                  ![w].processed = @ + 1,
                  ![w].new = IF existing = None THEN @ + 1 ELSE @,
                  ![w].updated = IF existing # None /\ changed THEN @ + 1 ELSE @]
             /\ IF changed
                THEN /\ txn' = [txn EXCEPT ![w] =
                                  { LegacyRow(item[w], ct, content_hash, version) }]
                     /\ pc' = [pc EXCEPT ![w] = "l_commit"]
                     /\ UNCHANGED iter
                ELSE /\ pc' = [pc EXCEPT ![w] = "l_for"]
                     /\ IterationOver(w)
                     /\ UNCHANGED txn
  /\ UNCHANGED << db, args, loop, served, remote, main, sessions >>

\* line 357: conn.commit()
LegacyCommit(w) ==
  /\ pc[w] = "l_commit"
  /\ db' = [db EXCEPT ![content_type[w]] = @ \cup txn[w]]
  /\ txn' = [txn EXCEPT ![w] = {}]
  /\ pc' = [pc EXCEPT ![w] = "l_for"]
  /\ IterationOver(w)
  /\ UNCHANGED << args, stats, loop, served, remote, main, sessions >>

\* sqlite3.connect, a statement or the commit fails: sqlite3.OperationalError;
\* the with block rolls back what the connection holds
LegacyStorageError(w) ==
  /\ pc[w] \in {"l_post", "l_commit"}
  /\ "id" \in DOMAIN item[w]
  /\ pc[w] = "l_post" =>
       \/ content_type[w] # "posts"
       \/ is_date_after_filter(Get(item[w], "date", NoDate), after_date[w])
  /\ stats' = [stats EXCEPT ![w].processed =
                 IF pc[w] = "l_post" THEN @ + 1 ELSE @]
  /\ txn' = [txn EXCEPT ![w] = {}]
  /\ caught' = [caught EXCEPT ![w] = "OperationalError"]
  /\ pc' = [pc EXCEPT ![w] = "l_except"]
  /\ UNCHANGED << db, args, loop, item, existing_hash, new_version, served,
                  remote, main, sessions >>

\* lines 359-361
LegacyHandleError(w) ==
  /\ pc[w] = "l_except"
  /\ stats' = [stats EXCEPT ![w].errors = @ + 1]
  /\ IterationOver(w)
  /\ pc' = [pc EXCEPT ![w] = "l_for"]
  /\ UNCHANGED << db, args, loop, served, remote, host >>

\* lines 363-369
LegacyPageEnd(w) ==
  /\ pc[w] = "l_page_end"
  /\ IF Truthy(limit[w]) /\ stats[w].processed >= limit[w][1]
     THEN Return(w)
     ELSE \E total_pages_count \in TotalPages :
          IF page[w] >= total_pages_count
          THEN Return(w)
          ELSE /\ pc' = [pc EXCEPT ![w] = "l_fetch"]
               /\ page' = [page EXCEPT ![w] = @ + 1]
               /\ UNCHANGED << consecutive_empty_pages, response, idx,
                               page_has_matching_content, iter >>
  /\ UNCHANGED << db, args, stats, served, remote, host >>

\* the steps of a call of the single-file archiver
LegacyStep(w) ==
  \/ LegacyFetch(w)
  \/ LegacyFetchFails(w)
  \/ LegacyForLoop(w)
  \/ LegacyProcessPost(w)
  \/ LegacyCommit(w)
  \/ LegacyStorageError(w)
  \/ LegacyHandleError(w)
  \/ LegacyPageEnd(w)

LegacyNext == \E w \in Writers : LegacyStart(w) \/ LegacyStep(w)

SpecLegacy == Init /\ [][LegacyNext]_vars

\* the same against a site whose posts carry dates, with after_date given
SpecLegacyDated == Fresh("dated") /\ [][LegacyNext]_vars

\* ------------------------------------------------------------------------
\* What the request for a page carries
\* ------------------------------------------------------------------------
\* ContentProcessor.format_date_for_api: no date gives None, a date its text
format_date_for_api(ad) ==
  IF ad = None THEN None ELSE Some(<< "iso", ad[1] >>)

\* faulty variant: every listing is asked with the after parameter
_get_content_page_with_after(ct, pg, after_iso) ==
  [endpoint |-> ct, page |-> pg, after |-> after_iso]

\* WordPressArchiver._get_content_page: posts, comments, pages and users are
\* asked with after, categories and tags without
_get_content_page(ct, pg, after_iso) ==
  [endpoint |-> ct, page |-> pg,
   after |-> IF ct \in {"posts", "comments", "pages", "users"}
             THEN after_iso ELSE None]

\* archiver.py lines 284, 586, 681 and 776: page and per_page, never after
LegacyRequest(ct, pg) == [endpoint |-> ct, page |-> pg, after |-> None]

\* the request the writer is about to send: line 59, or the single file's
Request(w) ==
  IF pc[w] = "l_fetch"
  THEN LegacyRequest(content_type[w], page[w])
  ELSE _get_content_page(content_type[w], page[w],
                         format_date_for_api(after_date[w]))

\* ------------------------------------------------------------------------
\* Runs of the kind tags, by either archiver, with and without after_date
\* ------------------------------------------------------------------------
StartTags(w) ==
  /\ w = 1
  /\ remote.mode = "dated"
  /\ \A v \in Writers : ~Running(v) /\ ~LegacyRunning(v)
  /\ \E lim \in Limits, ad \in {None} \cup AfterDates :
       BeginArchive(w, "tags", lim, ad)
  /\ UNCHANGED << remote, host >>

\* archive_tags called on its own, lines 769-772
archive_tags(w, lim, ad) ==
  /\ w = 1
  /\ remote.mode = "dated"
  /\ \A v \in Writers : ~Running(v) /\ ~LegacyRunning(v)
  /\ LegacyBegin(w, "tags", lim, ad)
  /\ UNCHANGED << remote, host >>

LegacyStartTags(w) ==
  \E lim \in Limits, ad \in {None} \cup AfterDates : archive_tags(w, lim, ad)

TagsNext ==
  \E w \in Writers :
    StartTags(w) \/ RunStep(w) \/ LegacyStartTags(w) \/ LegacyStep(w)

SpecTags == Fresh("dated") /\ [][TagsNext]_vars

\* ------------------------------------------------------------------------
\* migrate_db.py: migrate_database.  Here db is the database file as SQLite
\* sees it: table name -> [pk, unique, rows].  Of the columns, wp_id and
\* version are kept; pk is the set of those PRAGMA table_info flags as primary
\* key, unique the UNIQUE constraints (each a set of columns), rows the rows.
\* The statements run on one connection, in the order of the text.
\* ------------------------------------------------------------------------
MigratedTables == {"posts", "comments", "pages"}

\* the name of the temporary table, lines 48, 67 and 86
NewName(t) ==
  CASE t = "posts" -> "posts_new"
    [] t = "comments" -> "comments_new"
    [] t = "pages" -> "pages_new"

\* the keys a table enforces: its primary key and its UNIQUE constraints
KeysOf(table) ==
  table.unique \cup (IF table.pk = {} THEN {} ELSE {table.pk})

\* the rows do not collide on the key
Distinct(rows, key) ==
  \A r1, r2 \in rows :
    (\A c \in key : r1[c] = r2[c]) => r1 = r2

\* SQLite accepts the rows in a table of these keys
Accepts(keys, rows) == \A key \in keys : Distinct(rows, key)

\* the rows a table of the migrated kinds can hold: posts of two ids,
\* comments and pages of one
MigrationRows(t) ==
  { [wp_id |-> i, version |-> v] :
      i \in (IF t = "posts" THEN {1, 2} ELSE {1}), v \in {1, 2} }

\* the ways a table can enforce uniqueness on wp_id alone, UNIQUE on the
\* column or PRIMARY KEY, and the schema of lines 48-101
OldSchemas ==
  { [pk |-> {}, unique |-> {{"wp_id"}}],
    [pk |-> {"wp_id"}, unique |-> {}] }

NewSchema == [pk |-> {}, unique |-> {{"wp_id", "version"}}]

TableOf(schema, rows) ==
  [pk |-> schema.pk, unique |-> schema.unique, rows |-> rows]

\* the database files migrate_database can be run on: the three tables under
\* one schema, with any rows the schema accepts
Databases ==
  { d \in UNION { [MigratedTables -> { TableOf(sch, rows) :
                                         rows \in SUBSET (MigrationRows("posts")) }]
                  : sch \in OldSchemas \cup {NewSchema} } :
      \A t \in MigratedTables :
        /\ d[t].rows \subseteq MigrationRows(t)
        /\ Accepts(KeysOf(d[t]), d[t].rows) }

\* lines 27-35: column[1] is the name and column[5] the pk field of PRAGMA
\* table_info, which is nonzero for the columns of the primary key only
has_unique_wp_id(d) == "wp_id" \in d["posts"].pk

\* the state before the call, on any of the database files
MigrateInit ==
  /\ db \in Databases
  /\ pc = [w \in Writers |-> "idle"]
  /\ content_type = [w \in Writers |-> "posts"]
  /\ limit = [w \in Writers |-> None]
  /\ after_date = [w \in Writers |-> None]
  /\ stats = [w \in Writers |-> ZeroStats]
  /\ page = [w \in Writers |-> 1]
  /\ consecutive_empty_pages = [w \in Writers |-> 0]
  /\ response = [w \in Writers |-> NoResponse]
  /\ idx = [w \in Writers |-> 0]
  /\ page_has_matching_content = [w \in Writers |-> FALSE]
  /\ item = [w \in Writers |-> NoItem]
  /\ existing_hash = [w \in Writers |-> None]
  /\ new_version = [w \in Writers |-> 1]
  /\ caught = [w \in Writers |-> "none"]
  /\ served = 0
  /\ remote = FreeRemote
  /\ main = NoMain
  /\ sessions = <<>>
  /\ txn = [w \in Writers |-> {}]

\* what no statement of migrate_database touches
MigrateFrame == UNCHANGED << args, stats, loop, iter, served, remote, host >>

\* lines 14-24: the file exists and is opened; the script can be run again
migrate_database ==
  /\ pc[1] \in {"idle", "m_true", "m_false"}
  /\ pc' = [pc EXCEPT ![1] = "m_check"]
  /\ UNCHANGED db
  /\ MigrateFrame

\* lines 27-41
MigrateCheck ==
  /\ pc[1] = "m_check"
  /\ pc' = [pc EXCEPT ![1] =
             IF has_unique_wp_id(db) THEN "m_create" ELSE "m_true"]
  /\ UNCHANGED db
  /\ MigrateFrame

\* lines 47-101: CREATE TABLE fails when the name is taken
MigrateCreate ==
  /\ pc[1] = "m_create"
  /\ IF \E t \in MigratedTables : NewName(t) \in DOMAIN db
     THEN /\ pc' = [pc EXCEPT ![1] = "m_false"]
          /\ UNCHANGED db
     ELSE /\ pc' = [pc EXCEPT ![1] = "m_copy"]
          /\ db' = [n \in DOMAIN db \cup { NewName(t) : t \in MigratedTables } |->
                     IF n \in DOMAIN db THEN db[n] ELSE TableOf(NewSchema, {})]
  /\ MigrateFrame

\* lines 107-146: INSERT INTO ... SELECT ... FROM, table by table; a row the
\* new table does not accept fails the statement
MigrateCopy ==
  /\ pc[1] = "m_copy"
  /\ IF \A t \in MigratedTables : Accepts(KeysOf(db[NewName(t)]), db[t].rows)
     THEN /\ pc' = [pc EXCEPT ![1] = "m_drop"]
          /\ db' = [n \in DOMAIN db |->
                     IF \E t \in MigratedTables : n = NewName(t)
                     THEN [db[n] EXCEPT !.rows =
                             db[CHOOSE t \in MigratedTables : n = NewName(t)].rows]
                     ELSE db[n]]
     ELSE /\ pc' = [pc EXCEPT ![1] = "m_false"]
          /\ UNCHANGED db
  /\ MigrateFrame

\* lines 150-152
MigrateDrop ==
  /\ pc[1] = "m_drop"
  /\ pc' = [pc EXCEPT ![1] = "m_rename"]
  /\ db' = [n \in DOMAIN db \ MigratedTables |-> db[n]]
  /\ MigrateFrame

\* lines 156-164: the new tables take the old names, commit, return True
MigrateRename ==
  /\ pc[1] = "m_rename"
  /\ pc' = [pc EXCEPT ![1] = "m_true"]
  /\ db' = [t \in MigratedTables |-> db[NewName(t)]]
  /\ MigrateFrame

MigrateNext ==
  \/ migrate_database
  \/ MigrateCheck
  \/ MigrateCreate
  \/ MigrateCopy
  \/ MigrateDrop
  \/ MigrateRename

SpecMigrate == MigrateInit /\ [][MigrateNext]_vars

\* ------------------------------------------------------------------------
\* DatabaseManager.insert_content for a post, statement by statement.  Here
\* db holds the tables the call writes, posts, post_categories and post_tags,
\* as committed; txn[w] holds what the connection of the call has written and
\* not committed, as pairs of table and row.  item[w] is data, new_version[w]
\* is version, idx[w] counts the turns of the loop at hand.
\* ------------------------------------------------------------------------
LinkTables == {"posts", "post_categories", "post_tags"}

\* the versions a caller passes
LinkVersions == {1, 2}

\* the columns of a post the INSERT of lines 368-377 binds
PostColumns(data) ==
  [f \in DOMAIN data \ {"categories", "tags"} |-> data[f]]

\* data with lists of category and tag ids
WithLinks(data, category_ids, tag_ids) ==
  [f \in DOMAIN data \cup {"categories", "tags"} |->
     CASE f = "categories" -> category_ids
       [] f = "tags" -> tag_ids
       [] OTHER -> data[f]]

\* what extract_content_data returns for a post
PostData == extract_content_data([id |-> 1, content |-> BodyHello], "posts")

\* the data insert_content is called with: as extract_content_data returns
\* it, without the keys categories and tags, or with them; an id can be
\* listed twice
LinkedData ==
  {PostData}
  \cup { WithLinks(PostData, c, t) :
           c \in {<<>>, <<1>>, <<1, 2>>, <<1, 1>>}, t \in {<<>>, <<1>>} }

\* the row of lines 384-388
CategoryLink(data, category_id, version) ==
  [post_wp_id |-> data.wp_id, category_wp_id |-> category_id,
   version |-> version]

\* the row of lines 398-402
TagLink(data, tag_id, version) ==
  [post_wp_id |-> data.wp_id, tag_wp_id |-> tag_id, version |-> version]

\* the state before the first call
LinksInit ==
  /\ db = [t \in LinkTables |-> {}]
  /\ pc = [w \in Writers |-> "idle"]
  /\ content_type = [w \in Writers |-> "posts"]
  /\ limit = [w \in Writers |-> None]
  /\ after_date = [w \in Writers |-> None]
  /\ stats = [w \in Writers |-> ZeroStats]
  /\ page = [w \in Writers |-> 1]
  /\ consecutive_empty_pages = [w \in Writers |-> 0]
  /\ response = [w \in Writers |-> NoResponse]
  /\ idx = [w \in Writers |-> 0]
  /\ page_has_matching_content = [w \in Writers |-> FALSE]
  /\ item = [w \in Writers |-> NoItem]
  /\ existing_hash = [w \in Writers |-> None]
  /\ new_version = [w \in Writers |-> 1]
  /\ caught = [w \in Writers |-> "none"]
  /\ served = 0
  /\ remote = FreeRemote
  /\ main = NoMain
  /\ sessions = <<>>
  /\ txn = [w \in Writers |-> {}]

\* what no statement of insert_content touches
LinkFrame ==
  UNCHANGED << args, stats, page, consecutive_empty_pages, response,
               page_has_matching_content, existing_hash, caught, served,
               remote, main, sessions >>

\* SQLite lets one connection write at a time
MayWrite(w) == \A v \in Writers \ {w} : txn[v] = {}

\* the connection has written the row, INSERT or INSERT OR IGNORE
Written(w, table, row) ==
  txn' = [txn EXCEPT ![w] = @ \cup { [table |-> table, row |-> row] }]

\* lines 358-365: the call begins and opens its connection
InsertCall(w) ==
  /\ pc[w] \in {"idle", "ic_returned", "ic_raised"}
  /\ \E data \in LinkedData, version \in LinkVersions :
       /\ item' = [item EXCEPT ![w] = data]
       /\ new_version' = [new_version EXCEPT ![w] = version]
  /\ pc' = [pc EXCEPT ![w] = "ic_post"]
  /\ idx' = [idx EXCEPT ![w] = 0]
  /\ UNCHANGED << db, txn >>
  /\ LinkFrame

\* the call is left by an exception: get_connection closes the connection
\* (line 229) and what it has not committed is gone
LeaveByException(w) ==
  /\ pc' = [pc EXCEPT ![w] = "ic_raised"]
  /\ txn' = [txn EXCEPT ![w] = {}]
  /\ item' = [item EXCEPT ![w] = NoItem]
  /\ new_version' = [new_version EXCEPT ![w] = 1]
  /\ idx' = [idx EXCEPT ![w] = 0]
  /\ UNCHANGED db
  /\ LinkFrame

\* faulty variant: the INSERT of the post is committed at once
ExecutePostInsertCommits(w) ==
  /\ pc[w] = "ic_post"
  /\ MayWrite(w)
  /\ IF UniqueViolation(db["posts"], item[w].wp_id, new_version[w])
     THEN LeaveByException(w)
     ELSE /\ db' = [db EXCEPT !["posts"] =
                     insert_content(@, PostColumns(item[w]), new_version[w])]
          /\ pc' = [pc EXCEPT ![w] = "ic_categories"]
          /\ UNCHANGED << item, new_version, idx, txn >>
          /\ LinkFrame

\* lines 367-377: INSERT INTO posts; UNIQUE(wp_id, version) can refuse it
ExecutePostInsert(w) ==
  /\ pc[w] = "ic_post"
  /\ MayWrite(w)
  /\ IF UniqueViolation(db["posts"], item[w].wp_id, new_version[w])
     THEN LeaveByException(w)
     ELSE /\ Written(w, "posts", RowOf(PostColumns(item[w]), new_version[w]))
          /\ pc' = [pc EXCEPT ![w] = "ic_categories"]
          /\ UNCHANGED << db, item, new_version, idx >>
          /\ LinkFrame

\* lines 380-391: one turn of the loop over category_ids, or its end
ExecuteCategoryLink(w) ==
  /\ pc[w] = "ic_categories"
  /\ LET category_ids == Get(item[w], "categories", <<>>)
     IN IF idx[w] < Len(category_ids)
        THEN /\ Written(w, "post_categories",
                        CategoryLink(item[w], category_ids[idx[w] + 1],
                                     new_version[w]))
             /\ idx' = [idx EXCEPT ![w] = @ + 1]
             /\ UNCHANGED pc
        ELSE /\ pc' = [pc EXCEPT ![w] = "ic_tags"]
             /\ idx' = [idx EXCEPT ![w] = 0]
             /\ UNCHANGED txn
  /\ UNCHANGED << db, item, new_version >>
  /\ LinkFrame

\* lines 394-405: one turn of the loop over tag_ids, or its end
ExecuteTagLink(w) ==
  /\ pc[w] = "ic_tags"
  /\ LET tag_ids == Get(item[w], "tags", <<>>)
     IN IF idx[w] < Len(tag_ids)
        THEN /\ Written(w, "post_tags",
                        TagLink(item[w], tag_ids[idx[w] + 1], new_version[w]))
             /\ idx' = [idx EXCEPT ![w] = @ + 1]
             /\ UNCHANGED pc
        ELSE /\ pc' = [pc EXCEPT ![w] = "ic_commit"]
             /\ idx' = [idx EXCEPT ![w] = 0]
             /\ UNCHANGED txn
  /\ UNCHANGED << db, item, new_version >>
  /\ LinkFrame

\* line 466: conn.commit() writes what the connection holds, all of it
CommitInsert(w) ==
  /\ pc[w] = "ic_commit"
  /\ db' = [t \in LinkTables |->
              db[t] \cup { e.row : e \in { x \in txn[w] : x.table = t } }]
  /\ txn' = [txn EXCEPT ![w] = {}]
  /\ pc' = [pc EXCEPT ![w] = "ic_returned"]
  /\ item' = [item EXCEPT ![w] = NoItem]
  /\ new_version' = [new_version EXCEPT ![w] = 1]
  /\ UNCHANGED idx
  /\ LinkFrame

\* a statement or the commit fails (the file is locked or unwritable), or
\* KeyboardInterrupt arrives, at any point of the call
InsertRaises(w) ==
  /\ pc[w] \in {"ic_post", "ic_categories", "ic_tags", "ic_commit"}
  /\ LeaveByException(w)

LinksNext ==
  \E w \in Writers :
    \/ InsertCall(w)
    \/ ExecutePostInsert(w)
    \/ ExecuteCategoryLink(w)
    \/ ExecuteTagLink(w)
    \/ CommitInsert(w)
    \/ InsertRaises(w)

SpecLinks == LinksInit /\ [][LinksNext]_vars

\* ------------------------------------------------------------------------
\* The session log: DatabaseManager.save_session_stats,
\* save_comprehensive_session_stats and save_failed_verification_session
\* (archiver.py lines 862-929 are the same statements).  A text is the
\* sequence of its pieces; the errors column holds json.dumps of a list of
\* texts, which is that list.
\* ------------------------------------------------------------------------
Domain == "example.com"

\* ', '.join(content_types)
RECURSIVE Join(_)
Join(s) ==
  IF s = <<>> THEN <<>>
  ELSE IF Len(s) = 1 THEN << s[1] >>
  ELSE << s[1], ", " >> \o Join(Tail(s))

\* a dict in insertion order is a sequence of <<key, value>>; d[key] = val
DictKeys(d) == { d[i][1] : i \in DOMAIN d }

DictSet(d, key, val) ==
  IF key \in DictKeys(d)
  THEN [i \in DOMAIN d |-> IF d[i][1] = key THEN << key, val >> ELSE d[i]]
  ELSE Append(d, << key, val >>)

\* sum(stats[field] for stats in all_stats.values())
RECURSIVE Total(_, _)
Total(all_stats, field) ==
  IF all_stats = <<>> THEN 0
  ELSE all_stats[1][2][field] + Total(Tail(all_stats), field)

\* f"{content_type}: {processed} processed, {new} new, {updated} updated"
SummaryLine(ct, st) ==
  << ct, ": ", ToString(st.processed), " processed, ", ToString(st.new),
     " new, ", ToString(st.updated), " updated" >>

\* database.py lines 721-727: one line per kind with processed > 0
RECURSIVE ContentSummary(_)
ContentSummary(all_stats) ==
  IF all_stats = <<>> THEN <<>>
  ELSE (IF all_stats[1][2].processed > 0
        THEN << SummaryLine(all_stats[1][1], all_stats[1][2]) >>
        ELSE <<>>) \o ContentSummary(Tail(all_stats))

ErrorsOccurred == << "Errors occurred" >>

\* the row save_session_stats inserts
save_session_stats(ct, st) ==
  [ content_type |-> << ct >>,
    items_processed |-> st.processed,
    items_new |-> st.new,
    items_updated |-> st.updated,
    errors |-> IF st.errors = 0 THEN <<>> ELSE << ErrorsOccurred >> ]

\* the row save_comprehensive_session_stats inserts
save_comprehensive_session_stats(domain, cts, all_stats, interrupted) ==
  [ content_type |->
      (IF interrupted THEN << "INTERRUPTED - " >> ELSE <<>>)
        \o << "Archive of ", domain, " - " >> \o Join(cts),
    items_processed |-> Total(all_stats, "processed"),
    items_new |-> Total(all_stats, "new"),
    items_updated |-> Total(all_stats, "updated"),
    errors |-> IF Total(all_stats, "errors") = 0
               THEN ContentSummary(all_stats)
               ELSE ContentSummary(all_stats) \o << ErrorsOccurred >> ]

\* the row save_failed_verification_session inserts
save_failed_verification_session(domain, reason) ==
  [ content_type |-> << "FAILED VERIFICATION - ", domain, " - ", reason >>,
    items_processed |-> 0,
    items_new |-> 0,
    items_updated |-> 0,
    errors |-> << << "Verification failed: ", reason >> >> ]

\* ------------------------------------------------------------------------
\* archiver.py main(): one command-line run.  WordPressAPI(domain) only
\* builds a URL, so the connection failure of lines 1062-1069 does not
\* arise; signal_handler replaces the default SIGINT handler, so the except
\* KeyboardInterrupt clause of lines 1129-1138 is never entered.
\* ------------------------------------------------------------------------
\* --content-type all (two of the six kinds, in the order of line 1086), or
\* one kind
AllKinds == << "posts", "tags" >>

RunKinds == { << k >> : k \in Kinds } \cup { AllKinds }

\* lines 1132 and 1141
ErrorStats == [processed |-> 0, new |-> 0, updated |-> 0, errors |-> 1]

\* lines 1018-1036: the arguments are parsed
MainBegin ==
  /\ main.pc = "shell"
  /\ \A v \in Writers : pc[v] = "idle"
  /\ \E cts \in RunKinds, lim \in Limits :
       /\ main' = [pc |-> "verify", content_types |-> cts, k |-> 1,
                   all_stats |-> <<>>]
       /\ limit' = [limit EXCEPT ![1] = lim]
  /\ UNCHANGED << db, pc, content_type, after_date, stats, loop, iter,
                  served, remote, sessions, txn >>

\* faulty variant: a failed verification is recorded and the run goes on
VerifySiteGoesOn ==
  /\ main.pc = "verify"
  /\ \E ok \in BOOLEAN :
       /\ main' = [main EXCEPT !.pc = "loop"]
       /\ sessions' =
            IF ok THEN sessions
            ELSE Append(sessions, save_failed_verification_session(
                                    Domain, "Not a WordPress site"))
  /\ UNCHANGED << db, pc, args, stats, loop, iter, served, remote, txn >>

\* lines 1071-1081: verify_wordpress_site answers; False ends the run
VerifySite ==
  /\ main.pc = "verify"
  /\ \E ok \in BOOLEAN :
       IF ok
       THEN /\ main' = [main EXCEPT !.pc = "loop"]
            /\ UNCHANGED sessions
       ELSE /\ sessions' = Append(sessions, save_failed_verification_session(
                                              Domain, "Not a WordPress site"))
            /\ main' = [main EXCEPT !.pc = "exit1"]
  /\ UNCHANGED << db, pc, args, stats, loop, iter, served, remote, txn >>

\* lines 1099-1114: the next kind's archive function is called
MainCall ==
  /\ main.pc = "loop"
  /\ main.k <= Len(main.content_types)
  /\ LegacyBegin(1, main.content_types[main.k], limit[1], after_date[1])
  /\ main' = [main EXCEPT !.pc = "archiving"]
  /\ UNCHANGED << remote, sessions, txn >>

\* faulty variant: every kind gets its own session record
MainCollectAlwaysSaves ==
  /\ main.pc = "archiving"
  /\ pc[1] = "done"
  /\ LET ct == main.content_types[main.k]
     IN /\ main' = [main EXCEPT !.all_stats = DictSet(@, ct, stats[1]),
                                !.k = @ + 1,
                                !.pc = "loop"]
        /\ sessions' = Append(sessions, save_session_stats(ct, stats[1]))
  /\ UNCHANGED << db, pc, args, stats, loop, iter, served, remote, txn >>

\* lines 1116-1127: the archive function has returned
MainCollect ==
  /\ main.pc = "archiving"
  /\ pc[1] = "done"
  /\ LET ct == main.content_types[main.k]
     IN /\ main' = [main EXCEPT !.all_stats = DictSet(@, ct, stats[1]),
                                !.k = @ + 1,
                                !.pc = "loop"]
        /\ sessions' = IF Len(main.content_types) = 1
                       THEN Append(sessions, save_session_stats(ct, stats[1]))
                       ELSE sessions
  /\ UNCHANGED << db, pc, args, stats, loop, iter, served, remote, txn >>

\* lines 1143-1148: after the last kind
MainFinish ==
  /\ main.pc = "loop"
  /\ main.k > Len(main.content_types)
  /\ sessions' =
       IF Len(main.content_types) > 1
       THEN Append(sessions, save_comprehensive_session_stats(
                     Domain, main.content_types, main.all_stats, FALSE))
       ELSE sessions
  /\ main' = [main EXCEPT !.pc = "completed"]
  /\ UNCHANGED << db, pc, args, stats, loop, iter, served, remote, txn >>

\* faulty variant: the handler leaves the connection and its row as they are
SignalLeavesOpen ==
  /\ main.pc \in {"verify", "loop", "archiving"}
  /\ main' = [main EXCEPT !.pc = "exit0"]
  /\ UNCHANGED << db, pc, args, stats, loop, iter, served, remote, sessions,
                  txn >>

\* lines 977-983: SIGINT runs signal_handler, sys.exit(0) raises SystemExit
\* where the program stands; no except clause holds it, the with block of an
\* open connection rolls back, the process ends
Signal ==
  /\ main.pc \in {"verify", "loop", "archiving"}
  /\ main' = [main EXCEPT !.pc = "exit0"]
  /\ txn' = [w \in Writers |-> {}]
  /\ pc' = IF LegacyRunning(1) THEN [pc EXCEPT ![1] = "interrupted"] ELSE pc
  /\ FrameGone(1)
  /\ UNCHANGED << db, args, stats, served, remote, sessions >>

\* the INSERT of save_failed_verification_session raises: nothing holds it
VerifySaveFails ==
  /\ main.pc = "verify"
  /\ main' = [main EXCEPT !.pc = "crashed"]
  /\ UNCHANGED << db, pc, args, stats, loop, iter, served, remote, sessions,
                  txn >>

\* the INSERT of save_session_stats (line 1121) raises: the except clause of
\* lines 1139-1141 holds it and the loop goes on
MainCollectSaveFails ==
  /\ main.pc = "archiving"
  /\ pc[1] = "done"
  /\ Len(main.content_types) = 1
  /\ main' = [main EXCEPT
       !.all_stats = DictSet(@, main.content_types[main.k], ErrorStats),
       !.k = @ + 1,
       !.pc = "loop"]
  /\ UNCHANGED << db, pc, args, stats, loop, iter, served, remote, sessions,
                  txn >>

\* the INSERT of save_comprehensive_session_stats (line 1145) raises:
\* nothing holds it
MainFinishSaveFails ==
  /\ main.pc = "loop"
  /\ main.k > Len(main.content_types)
  /\ Len(main.content_types) > 1
  /\ main' = [main EXCEPT !.pc = "crashed"]
  /\ UNCHANGED << db, pc, args, stats, loop, iter, served, remote, sessions,
                  txn >>

\* ------------------------------------------------------------------------
\* WordPressArchiver.archive_all_content of the package.  It writes the
\* session of a single kind itself; the session of several kinds is left to
\* its caller (save_comprehensive_session).
\* ------------------------------------------------------------------------
\* line 172
archive_all_content ==
  /\ main.pc = "shell"
  /\ \A v \in Writers : pc[v] = "idle"
  /\ \E cts \in RunKinds, lim \in Limits :
       /\ main' = [pc |-> "a_loop", content_types |-> cts, k |-> 1,
                   all_stats |-> <<>>]
       /\ limit' = [limit EXCEPT ![1] = lim]
  /\ UNCHANGED << db, pc, content_type, after_date, stats, loop, iter,
                  served, remote, sessions, txn >>

\* lines 174-176
AllCall ==
  /\ main.pc = "a_loop"
  /\ main.k <= Len(main.content_types)
  /\ BeginArchive(1, main.content_types[main.k], limit[1], after_date[1])
  /\ main' = [main EXCEPT !.pc = "a_archiving"]
  /\ UNCHANGED << remote, sessions, txn >>

\* faulty variant: the kind after the one collected is left out
AllCollectSkips ==
  /\ main.pc = "a_archiving"
  /\ pc[1] = "done"
  /\ LET ct == main.content_types[main.k]
     IN /\ main' = [main EXCEPT !.all_stats = DictSet(@, ct, stats[1]),
                                !.k = @ + 2,
                                !.pc = "a_loop"]
        /\ sessions' = IF Len(main.content_types) = 1
                       THEN Append(sessions, save_session_stats(ct, stats[1]))
                       ELSE sessions
  /\ UNCHANGED << db, pc, args, stats, loop, iter, served, remote, txn >>

\* lines 177-181
AllCollect ==
  /\ main.pc = "a_archiving"
  /\ pc[1] = "done"
  /\ LET ct == main.content_types[main.k]
     IN /\ main' = [main EXCEPT !.all_stats = DictSet(@, ct, stats[1]),
                                !.k = @ + 1,
                                !.pc = "a_loop"]
        /\ sessions' = IF Len(main.content_types) = 1
                       THEN Append(sessions, save_session_stats(ct, stats[1]))
                       ELSE sessions
  /\ UNCHANGED << db, pc, args, stats, loop, iter, served, remote, txn >>

\* line 181 raises: archive_all_content has no except clause
AllCollectSaveFails ==
  /\ main.pc = "a_archiving"
  /\ pc[1] = "done"
  /\ Len(main.content_types) = 1
  /\ main' = [main EXCEPT !.pc = "a_raised"]
  /\ UNCHANGED << db, pc, args, stats, loop, iter, served, remote, sessions,
                  txn >>

\* line 183
AllReturn ==
  /\ main.pc = "a_loop"
  /\ main.k > Len(main.content_types)
  /\ main' = [main EXCEPT !.pc = "a_returned"]
  /\ UNCHANGED << db, pc, args, stats, loop, iter, served, remote, sessions,
                  txn >>

\* one run from the command line; the store takes every write
MainNext ==
  \/ MainBegin
  \/ VerifySite
  \/ MainCall
  \/ MainCollect
  \/ MainFinish
  \/ Signal
  \/ LegacyFetch(1)
  \/ LegacyFetchFails(1)
  \/ LegacyForLoop(1)
  \/ LegacyProcessPost(1)
  \/ LegacyCommit(1)
  \/ LegacyHandleError(1)
  \/ LegacyPageEnd(1)

SpecMain == Init /\ [][MainNext]_vars

\* one call of archive_all_content; the session log takes every write
AllNext ==
  \/ archive_all_content
  \/ AllCall
  \/ AllCollect
  \/ AllReturn
  \/ RunStep(1)
  \/ InsertBindingError(1)

\* a run of either driver
RunsNext == MainNext \/ AllNext

SpecRuns == Init /\ [][RunsNext]_vars

\* the same without SIGINT, and with a session log whose INSERT can fail
FaultyNext ==
  \/ MainBegin
  \/ VerifySite
  \/ VerifySaveFails
  \/ MainCall
  \/ MainCollect
  \/ MainCollectSaveFails
  \/ MainFinish
  \/ MainFinishSaveFails
  \/ archive_all_content
  \/ AllCall
  \/ AllCollect
  \/ AllCollectSaveFails
  \/ AllReturn
  \/ LegacyStep(1)
  \/ RunStep(1)
  \/ InsertBindingError(1)

SpecMainFaulty == Init /\ [][FaultyNext]_vars

\* ------------------------------------------------------------------------
\* Properties of archive runs by a single writer
\* ------------------------------------------------------------------------
\* the outcome of the item writer w is processing, read off one step
ItemOutcome(w) ==
  LET ct == content_type[w]
      d == content_data(w)
      rows == RowsOf(db[ct], d.wp_id)
      latest == LatestRow(db[ct], d.wp_id)
      appended == db'[ct] \ db[ct]
  IN /\ (pc[w] = "item" /\ "id" \in DOMAIN item[w] /\ pc'[w] # "interrupted") =>
          /\ db' = db
          /\ IF rows # {} /\ latest.content_hash = d.content_hash
             THEN /\ pc'[w] \in {"for", "page_end"}
                  /\ stats'[w].new = stats[w].new
                  /\ stats'[w].updated = stats[w].updated
             ELSE pc'[w] \in {"get_version", "insert"}
     /\ (pc[w] = "insert" /\ db' # db) =>
          /\ \A k \in Kinds \ {ct} : db'[k] = db[k]
          /\ db[ct] \subseteq db'[ct]
          /\ IF rows = {}
             THEN /\ appended = { RowOf(d, 1) }
                  /\ stats'[w].new = stats[w].new + 1
                  /\ stats'[w].updated = stats[w].updated
             ELSE /\ latest.content_hash # d.content_hash
                  /\ appended = { RowOf(d, latest.version + 1) }
                  /\ stats'[w].updated = stats[w].updated + 1
                  /\ stats'[w].new = stats[w].new

\* C1: processing one item against the store, single writer.  No row for
\* its remote_id: exactly one row with version 1 is appended and new rises by
\* one.  Latest stored fingerprint equal to the item's: nothing is appended
\* and the iteration ends.  Latest fingerprint different: exactly one row
\* with version latest + 1 is appended and updated rises by one.
C1_ItemOutcome == [][\A w \in Writers : ItemOutcome(w)]_vars

\* one run has created a row, appended a second version and seen an
\* unchanged item
C1_Witness ==
  /\ stats[1] = [processed |-> 3, new |-> 1, updated |-> 1, errors |-> 0]
  /\ \E r \in db[content_type[1]] : r.version = 2

\* C2: for every kind and remote_id the stored versions are exactly 1..N,
\* each once, and consecutive versions carry different fingerprints; in every
\* state runs of one writer reach, with item errors, fetch failures, limits
\* and interrupts.
C2_VersionChain ==
  \A k \in Kinds : \A r \in db[k] :
    /\ r.version >= 1
    /\ \A q \in db[k] : (q.wp_id = r.wp_id /\ q.version = r.version) => q = r
    /\ r.version > 1 =>
         \E q \in db[k] : /\ q.wp_id = r.wp_id
                          /\ q.version = r.version - 1
                          /\ q.content_hash # r.content_hash

\* a chain of three versions, the run that wrote the third interrupted
C2_Witness ==
  /\ pc[1] = "interrupted"
  /\ \E k \in Kinds : \E r \in db[k] : r.version = 3

\* C3: a row once written stays as it is: every step keeps every row of
\* every table, field by field.
C3_AppendOnly == [][\A k \in Kinds : db[k] \subseteq db'[k]]_vars

\* a later run has appended to a table that held rows of an earlier one
C3_Witness ==
  /\ pc[1] = "done"
  /\ stats[1].new + stats[1].updated = 1
  /\ \E k \in Kinds : Cardinality(db[k]) >= 2

VersionsOf(table, wp_id) == { r.version : r \in RowsOf(table, wp_id) }

\* C4: with two archivers at work on one store and one remote_id, reading
\* the latest fingerprint, reading the latest version and appending are one
\* uninterrupted unit, so the versions of an id stay 1..N and a version never
\* repeats the fingerprint of the version before it.
C4_AtomicOutcome ==
  \A k \in Kinds : \A i \in WpIds :
    /\ VersionsOf(db[k], i) = 1..Cardinality(RowsOf(db[k], i))
    /\ \A r, q \in RowsOf(db[k], i) :
         q.version = r.version + 1 => q.content_hash # r.content_hash

\* no two rows of a table share (wp_id, version)
UniqueRows ==
  \A k \in Kinds : \A r, q \in db[k] :
    (r.wp_id = q.wp_id /\ r.version = q.version) => r = q

\* the INSERT of writer w meets a row with its (wp_id, version)
Collides(w) ==
  /\ pc[w] = "insert"
  /\ UniqueViolation(db[content_type[w]], content_data(w).wp_id, new_version[w])

\* C5: an INSERT for a (wp_id, version) the table already holds fails and
\* leaves the table as it was, and the failure is IntegrityError whenever the
\* storage layer got as far as executing the statement; so no two rows of a
\* table ever share (wp_id, version), two writers or one.
C5_UniqueLastDefence ==
  [][ /\ \A w \in Writers :
           (Collides(w) /\ pc'[w] # "insert") =>
              /\ db' = db
              /\ pc'[w] = "except"
              /\ caught'[w] \in {"IntegrityError", "OperationalError"}
      /\ UniqueRows'
    ]_vars

\* an INSERT has failed on the constraint, the row it collided with in place
C5_Witness ==
  \E w \in Writers :
    /\ pc[w] = "except"
    /\ caught[w] = "IntegrityError"
    /\ RowsOf(db[content_type[w]], item[w]["id"]) # {}

\* C6: IntegrityError is fatal: once the except clause holds one, the run
\* is over; it does not go on to further items.  (The INSERT is not retried
\* either; and stats, the run's outcome, holds only a count of errors.)
C6_ViolationIsFatal ==
  [][\A w \in Writers :
       (pc[w] = "except" /\ caught[w] = "IntegrityError" /\ pc'[w] # "except")
         => ~Running(w)'
    ]_vars

\* ------------------------------------------------------------------------
\* Properties of a repeated run
\* ------------------------------------------------------------------------
\* the answers of the given kind on the tape
Taped(kind) ==
  { i \in 1..Len(remote.tape) : remote.tape[i].kind = kind }

\* the second run of the pair is under way or over
Repeating == remote.mode = "replay"

FingerprintOf(it) == extract_content_data(it, content_type[1]).content_hash

\* every remote_id was listed with one fingerprint only
OneFingerprintPerId ==
  \A i, j \in Taped("item") :
    LET a == remote.tape[i].val
        b == remote.tape[j].val
    IN ("id" \in DOMAIN a /\ "id" \in DOMAIN b /\ a["id"] = b["id"])
         => FingerprintOf(a) = FingerprintOf(b)

\* every error the first run counted was a failed fetch or an item without
\* id: no INSERT failed
NoInsertFailed ==
  remote.first.errors =
    Cardinality(Taped("fail"))
      + Cardinality({ i \in Taped("item") : "id" \notin DOMAIN remote.tape[i].val })

C8_NoiseOnlyUnchanged ==
  remote.mode = "noisy" =>
    /\ \A r, q \in db["posts"] : r.content_hash = q.content_hash
    /\ \A r \in db["posts"] : r.version = 1
    /\ \A w \in Writers : stats[w].updated = 0

\* C10: a run with limit L in which no item has raised never has more than
\* L items processed, and requests a page only while fewer than L items are
\* processed.
C10_LimitExact ==
  \A w \in Writers :
    (Truthy(limit[w]) /\ stats[w].errors = 0 /\ caught[w] = "none") =>
      /\ stats[w].processed <= limit[w][1]
      /\ pc[w] \in {"fetch", "l_fetch"} => stats[w].processed < limit[w][1]

\* ------------------------------------------------------------------------
\* Properties of runs with a date filter
\* ------------------------------------------------------------------------
\* writer w holds an item the remote dated, and a run with after_date is
\* about to process it
DatedItemAtHand(w) ==
  /\ pc[w] \in {"item", "l_post"}
  /\ after_date[w] # None
  /\ "date" \in DOMAIN item[w]

\* C11: in a run with after_date, an item the remote dated before
\* after_date is neither counted as processed nor written, although it came
\* in a fetched page; an item of the page dated on or after after_date is
\* counted.
C11_DateFilter ==
  [][\A w \in Writers :
       (DatedItemAtHand(w) /\ pc'[w] # pc[w]) =>
          IF item[w]["date"] < after_date[w][1]
          THEN /\ stats'[w] = stats[w]
               /\ db' = db
               /\ txn'[w] = {}
               /\ pc'[w] \in {"for", "l_for"}
          ELSE stats'[w].processed = stats[w].processed + 1
    ]_vars

\* ------------------------------------------------------------------------
\* Properties of a command-line run and of its session log
\* ------------------------------------------------------------------------
\* the counters the run holds: the kinds collected so far and the kind at hand
Partial ==
  IF main.pc = "archiving"
  THEN DictSet(main.all_stats, main.content_types[main.k], stats[1])
  ELSE main.all_stats

\* the run is ended by SIGINT in this step
Interrupted == main.pc # "exit0" /\ main'.pc = "exit0"

\* C12: an interrupt signal at any point of a run keeps every counter
\* accumulated so far and writes exactly one session record, tagged
\* "INTERRUPTED", that carries those partial counters.
C12_InterruptRecorded ==
  [][Interrupted =>
       /\ stats' = stats
       /\ Len(sessions') = Len(sessions) + 1
       /\ LET r == sessions'[Len(sessions')]
          IN /\ r.content_type[1] = "INTERRUPTED - "
             /\ r.items_processed = Total(Partial, "processed")
             /\ r.items_new = Total(Partial, "new")
             /\ r.items_updated = Total(Partial, "updated")
    ]_vars


\* the version chains of a store: versions 1..N, each once, neighbours differ
WellChained(store) ==
  \A k \in Kinds : \A r \in store[k] :
    /\ r.version >= 1
    /\ \A q \in store[k] : (q.wp_id = r.wp_id /\ q.version = r.version) => q = r
    /\ r.version > 1 =>
         \E q \in store[k] : /\ q.wp_id = r.wp_id
                             /\ q.version = r.version - 1
                             /\ q.content_hash # r.content_hash

\* C13: an interrupt neither removes nor alters a version written before it;
\* the row of the item in flight is committed whole or absent, nothing stays
\* pending, and the version chains hold in the store left behind.
C13_InterruptConsistent ==
  [][Interrupted =>
       /\ \E done \in { {}, txn[1] } :
            db' = [db EXCEPT ![content_type[1]] = @ \cup done]
       /\ \A w \in Writers : txn'[w] = {}
       /\ WellChained(db')
    ]_vars

\* a single-kind run interrupted between execute and commit: the row was
\* counted, the store holds the earlier rows and not this one
C13_Witness ==
  /\ main.pc = "exit0"
  /\ pc[1] = "interrupted"
  /\ Len(main.content_types) = 1
  /\ db[content_type[1]] # {}
  /\ stats[1].new + stats[1].updated > Cardinality(db[content_type[1]])


\* the session records tagged as failed verification
FailedRecords ==
  { i \in DOMAIN sessions : sessions[i].content_type[1] = "FAILED VERIFICATION - " }

\* C14: a failed verification ends the run as failed before any page is
\* fetched and any row is written, with exactly one session record:
\* "FAILED VERIFICATION - <domain> - <reason>", the three counters zero, and
\* an errors list that names the reason.  Such a record is only ever written
\* by a run that ends this way.
C14_FailedVerification ==
  /\ main.pc = "exit1" =>
       /\ Len(sessions) = 1
       /\ LET r == sessions[1]
              reason == r.content_type[4]
          IN /\ Len(r.content_type) = 4
             /\ r.content_type[1] = "FAILED VERIFICATION - "
             /\ r.content_type[2] = Domain
             /\ r.content_type[3] = " - "
             /\ reason # ""
             /\ r.items_processed = 0
             /\ r.items_new = 0
             /\ r.items_updated = 0
             /\ r.errors # <<>>
             /\ \E i \in DOMAIN r.errors : r.errors[i][Len(r.errors[i])] = reason
       /\ served = 0
       /\ \A k \in Kinds : db[k] = {}
       /\ \A w \in Writers : pc[w] = "idle"
  /\ FailedRecords # {} => main.pc = "exit1"

\* a run that ended with exit status 1 after the verification
C14_Witness ==
  /\ main.pc = "exit1"
  /\ FailedRecords = {1}


\* the kinds whose counters the run has collected
Collected == DictKeys(main.all_stats)

C16_OutcomeRecorded ==
  /\ main.pc \in {"completed", "exit1"} => Len(sessions) >= 1
  /\ (main.pc = "a_returned" /\ Len(main.content_types) = 1) =>
        Len(sessions) >= 1


\* a run, or a call of archive_all_content, has reached its end
Ended == main.pc \in {"completed", "a_returned"}

\* the records one kind writes for itself, and those written for several kinds
Individual == { i \in DOMAIN sessions : Len(sessions[i].content_type) = 1 }

Comprehensive ==
  { i \in DOMAIN sessions : sessions[i].content_type[1] = "Archive of " }

\* the rows written by the run (the store was empty when it began)
RowsWritten(kinds) ==
  IF kinds = {} THEN 0
  ELSE LET Sum[S \in SUBSET kinds] ==
             IF S = {} THEN 0
             ELSE LET k == CHOOSE x \in S : TRUE
                  IN Cardinality(db[k]) + Sum[S \ {k}]
       IN Sum[kinds]

C18_ErrorsField ==
  (main.pc = "completed" /\ Len(sessions) = 1) =>
     (sessions[1].errors = <<>> <=> Total(main.all_stats, "errors") = 0)


\* ------------------------------------------------------------------------
\* Termination of archive_content
\* ------------------------------------------------------------------------
\* what is left of the page at hand: a fetch before everything, then each
\* item's steps before the next turn of the for loop, the page's end last
\* (an item takes fewer than six steps)
InPage(w) ==
  CASE pc[w] = "fetch" -> MaxPageLen * 6 + 6
    [] pc[w] = "page_end" -> 0
    [] pc[w] = "for" -> (MaxPageLen - idx[w]) * 6 + 5
    [] pc[w] = "item" -> (MaxPageLen - idx[w]) * 6 + 9
    [] pc[w] = "get_version" -> (MaxPageLen - idx[w]) * 6 + 8
    [] pc[w] = "insert" -> (MaxPageLen - idx[w]) * 6 + 7
    [] OTHER -> (MaxPageLen - idx[w]) * 6 + 6

\* what is left of the run: the pages after this one, then the page at hand
Measure(w) ==
  IF Running(w)
  THEN (MaxPages - page[w]) * (MaxPageLen * 6 + 7) + InPage(w) + 1
  ELSE 0

\* C19: against a site whose every answer reports a finite total of pages
\* (at most MaxPages), a call of archive_content never asks for a page beyond
\* that total, every step it takes brings it nearer to its return, whatever
\* the items hold and however many of them raise, and the call returns.
C19_Terminates ==
  /\ [][\A w \in Writers :
          Running(w) => /\ page[w] <= MaxPages
                        /\ Measure(w)' < Measure(w)]_vars
  /\ \A w \in Writers : Running(w) ~> pc[w] = "done"

\* the call has fetched every page the site reported, has met an item that
\* raised, and has returned
C19_Witness ==
  /\ remote.mode = "finite"
  /\ pc[1] = "done"
  /\ served = MaxPages * MaxPageLen
  /\ stats[1].errors >= 1
  /\ stats[1].processed = served


\* ------------------------------------------------------------------------
\* Properties of the extraction of one item
\* ------------------------------------------------------------------------
\* C20: an item without id makes its own processing fail and nothing else:
\* the exception is caught, errors rises by one, no row is written and the
\* for loop goes on.  An item with an id is extracted without an exception,
\* whatever else it lacks, and is stored: nothing but a failure of the store
\* (OperationalError) keeps its row from being written.
C20_OnlyMissingIdFails ==
  [][\A w \in Writers :
       /\ (pc[w] = "item" /\ pc'[w] \notin {"item", "interrupted"}) =>
             IF "id" \in DOMAIN item[w]
             THEN pc'[w] # "except"
             ELSE /\ pc'[w] = "except"
                  /\ caught'[w] = "KeyError"
                  /\ db' = db
       /\ (pc[w] = "insert" /\ pc'[w] = "except") =>
             caught'[w] = "OperationalError"
       /\ (pc[w] = "except" /\ pc'[w] \notin {"except", "interrupted"}) =>
             /\ stats'[w] = [stats[w] EXCEPT !.errors = @ + 1]
             /\ db' = db
             /\ pc'[w] = "for"
    ]_vars


\* ------------------------------------------------------------------------
\* Properties of the fingerprint
\* ------------------------------------------------------------------------
\* the item at hand has the rendered body of the latest stored version of its
\* post, whatever its other fields say
SameBodyAtHand(w) ==
  /\ pc[w] = "item"
  /\ content_type[w] = "posts"
  /\ "id" \in DOMAIN item[w]
  /\ RowsOf(db["posts"], item[w]["id"]) # {}
  /\ normalize_content(LatestRow(db["posts"], item[w]["id"]).content)
       = normalize_content(Get(item[w], "content", <<>>))

\* C21: a post fetched again that differs from its latest stored version in
\* fields other than the body only is unchanged: the iteration ends with no
\* row appended, none altered, and new and updated as they were.
C21_BodyOnlyFingerprint ==
  [][\A w \in Writers :
       (SameBodyAtHand(w) /\ pc'[w] \notin {"item", "interrupted"}) =>
          /\ db' = db
          /\ pc'[w] \in {"for", "page_end"}
          /\ stats'[w] = [stats[w] EXCEPT !.processed = @ + 1]
    ]_vars

\* the post was stored at its first sighting and found unchanged at a second
\* one, which carried another title; the row keeps the first title
C21_Witness ==
  /\ remote.mode = "retitled"
  /\ stats[1] = [processed |-> 2, new |-> 1, updated |-> 0, errors |-> 0]
  /\ Cardinality(db["posts"]) = 1


\* C22: normalization is idempotent: the normalized text of every body the
\* archiver has stored is a fixed point of normalize_content, also when the
\* body holds markup in entity encoding that decoding turns into a noise
\* fragment.
C22_NormalizeIdempotent ==
  \A r \in db["posts"] :
    normalize_content(normalize_content(r.content)) = normalize_content(r.content)


\* the tokens that are markup
TagTokens ==
  DivOpenTokens \cup SpanOpenTokens \cup ScriptOpen \cup TimeOpen
  \cup { "</div>", "</span>", "</script>", "</time>", "<pre>", "</pre>",
         "<p>", "</p>", "<p >", "<p style=\"c\">",
         "<p id=\"x1234567890\">", "<p class=\"c1234567890\">" }

\* the body without its noise regions: share widgets, ads, scripts, block
\* wrappers and time elements
NoiseRemoved(h) ==
  SubBlock(SubBlock(SubBlock(SubBlock(SubBlock(h,
    SharethisOpen, "</div>"), AdOpen, "</div>"), ScriptOpen, "</script>"),
    WpBlockClassOpen, "</div>"), TimeOpen, "</time>")

\* the words a reader sees
RECURSIVE Words(_)
Words(h) ==
  IF h = <<>> THEN <<>>
  ELSE (IF Head(h) \in TagTokens \/ IsSpace(Unescape(Head(h)))
        THEN <<>> ELSE << Unescape(Head(h)) >>) \o Words(Tail(h))

TextOf(h) == Words(NoiseRemoved(h))

\* the item at hand is a post whose text differs from that of its latest
\* stored version
EditedAtHand(w) ==
  /\ pc[w] = "item"
  /\ content_type[w] = "posts"
  /\ "id" \in DOMAIN item[w]
  /\ RowsOf(db["posts"], item[w]["id"]) # {}
  /\ TextOf(LatestRow(db["posts"], item[w]["id"]).content)
       # TextOf(Get(item[w], "content", <<>>))

\* C23: two bodies whose text outside the noise regions differs have
\* different fingerprints: a post whose text was edited is never taken as
\* unchanged, its processing goes on to write a new version.
C23_FingerprintSensitive ==
  [][\A w \in Writers :
       (EditedAtHand(w) /\ pc'[w] \notin {"item", "interrupted"}) =>
          pc'[w] = "get_version"
    ]_vars


\* ------------------------------------------------------------------------
\* Properties of the session descriptions
\* ------------------------------------------------------------------------
\* the four shapes of a description
KindShape(d) == Len(d) = 1 /\ d[1] \in Kinds

ArchiveShape(d) ==
  /\ Len(d) > 3
  /\ d[1] = "Archive of " /\ d[2] = Domain /\ d[3] = " - "

InterruptedShape(d) ==
  /\ Len(d) > 4
  /\ d[1] = "INTERRUPTED - " /\ d[2] = "Archive of " /\ d[3] = Domain
  /\ d[4] = " - "

FailedShape(d) ==
  /\ Len(d) = 4
  /\ d[1] = "FAILED VERIFICATION - " /\ d[2] = Domain /\ d[3] = " - "

\* C24: the description of every session record has the shape of the outcome
\* of its run: "<Kind>" when a run of one kind completed, "Archive of <domain>
\* - <kinds>" when a run of several kinds completed, "INTERRUPTED - Archive
\* of <domain> - <kinds>" when the run was interrupted, "FAILED VERIFICATION -
\* <domain> - <reason>" when the verification failed.
C24_DescriptionByOutcome ==
  /\ \A i \in DOMAIN sessions :
    LET d == sessions[i].content_type
    IN /\ KindShape(d) \/ ArchiveShape(d) \/ InterruptedShape(d) \/ FailedShape(d)
       /\ main.pc = "completed" =>
            IF Len(main.content_types) = 1
            THEN d = main.content_types
            ELSE ArchiveShape(d) /\ SubSeq(d, 4, Len(d)) = Join(main.content_types)
       /\ main.pc = "exit1" => FailedShape(d)
  /\ main.pc = "exit0" =>
       \E i \in DOMAIN sessions :
         LET d == sessions[i].content_type
         IN /\ InterruptedShape(d)
            /\ SubSeq(d, 5, Len(d)) = Join(main.content_types)


\* ------------------------------------------------------------------------
\* Properties of the date filter
\* ------------------------------------------------------------------------
\* C25: tags ignore the date filter.  Whatever after_date a run of the kind
\* tags was given, its requests carry no after parameter, every item a page
\* holds goes on to be processed, and the processing of each item counts it:
\* none is skipped.
C25_TagsIgnoreDate ==
  [][\A w \in Writers :
       content_type[w] = "tags" =>
         /\ pc[w] \in {"fetch", "l_fetch"} => Request(w).after = None
         /\ (pc[w] \in {"for", "l_for"} /\ idx'[w] = idx[w] + 1) =>
              pc'[w] \in {"item", "l_post"}
         /\ (pc[w] \in {"item", "l_post"} /\ pc'[w] # pc[w]
               /\ pc'[w] # "interrupted") =>
              stats'[w].processed = stats[w].processed + 1
    ]_vars

\* a run of tags with after_date given has stored a tag
C25_Witness ==
  /\ content_type[1] = "tags"
  /\ after_date[1] # None
  /\ pc[1] = "done"
  /\ stats[1].processed >= 1
  /\ db["tags"] # {}


\* ------------------------------------------------------------------------
\* Properties of the migration
\* ------------------------------------------------------------------------
\* the rows held under the name of a table or of its temporary table
HeldRows(d, t) ==
  (IF t \in DOMAIN d THEN d[t].rows ELSE {})
  \cup (IF NewName(t) \in DOMAIN d THEN d[NewName(t)].rows ELSE {})

\* the table enforces uniqueness on (wp_id, version) and not on wp_id alone
Versioned(table) ==
  /\ {"wp_id", "version"} \in KeysOf(table)
  /\ {"wp_id"} \notin KeysOf(table)

\* C26: migrate_database loses no row; when it returns, posts, comments and
\* pages enforce uniqueness on (wp_id, version), whether they enforced it on
\* wp_id alone before or not; and on a migrated database it changes nothing.
C26_Migration ==
  [][/\ \A t \in MigratedTables : HeldRows(db, t) \subseteq HeldRows(db', t)
     /\ (pc[1] # "m_true" /\ pc'[1] = "m_true") =>
          /\ DOMAIN db' = MigratedTables
          /\ \A t \in MigratedTables : Versioned(db'[t])
     /\ pc'[1] # "m_false"
     /\ (pc[1] = "m_check" /\ \A t \in MigratedTables : Versioned(db[t])) =>
          (db' = db /\ pc'[1] = "m_true")
    ]_vars


\* ------------------------------------------------------------------------
\* Properties of the paging
\* ------------------------------------------------------------------------
\* the step has taken this answer from the remote: the taped run puts it on
\* the tape, the repetition reads it there
Answered(kind, val) ==
  \/ /\ remote.mode = "record"
     /\ remote'.tape = Append(remote.tape, [kind |-> kind, val |-> val])
  \/ /\ remote.mode = "replay"
     /\ remote'.pos = remote.pos + 1
     /\ remote.pos < Len(remote.tape)
     /\ remote.tape[remote.pos + 1] = [kind |-> kind, val |-> val]

\* C27: a run asks for page 1 first and, each time it comes back to the
\* request, for the page after the one it asked for last; in between the page
\* number stands.  An answer without items ends the run, and so does an
\* answer to page p that reports a total of at most p pages; either leaves
\* the counters as they were.
C27_PagesInOrder ==
  [][\A w \in Writers :
       /\ (~Running(w) /\ Running(w)') =>
            (pc'[w] = "fetch" /\ page'[w] = 1)
       /\ (Running(w) /\ Running(w)') =>
            /\ pc'[w] = "fetch" => (pc[w] = "page_end" /\ page'[w] = page[w] + 1)
            /\ pc'[w] # "fetch" => page'[w] = page[w]
       /\ (pc[w] = "fetch" /\ Answered("page", 0)) =>
            (pc'[w] = "done" /\ stats'[w] = stats[w])
       /\ \A t \in TotalPages :
            (pc[w] = "page_end" /\ Answered("total", t) /\ t <= page[w]) =>
               (pc'[w] = "done" /\ stats'[w] = stats[w])
    ]_vars

\* the run asked for page 1, was told of two pages, asked for page 2, got no
\* items and returned
C27_Witness ==
  /\ remote.mode = "record"
  /\ pc[1] = "done"
  /\ Len(remote.tape) >= 3
  /\ remote.tape[Len(remote.tape)] = [kind |-> "page", val |-> 0]
  /\ \E i \in DOMAIN remote.tape : remote.tape[i] = [kind |-> "total", val |-> 2]


\* C28: when EmptyPagesAllowed consecutive fetched pages each held no item
\* that passes the date filter, the run stops without asking for a further
\* page, although the remote reports more.  Against a site all of whose
\* posts are dated before after_date every fetched page is such a page: the
\* run never gets to ask for page EmptyPagesAllowed + 1.
C28_EmptyPageGuard ==
  \A w \in Writers :
    (Running(w) /\ remote.mode = "stale" /\ after_date[w] # None) =>
       page[w] <= EmptyPagesAllowed


\* ------------------------------------------------------------------------
\* Properties of the normalization's order
\* ------------------------------------------------------------------------
\* the text holds a <div> or <span> with nothing but white space in it
HasEmptyShell(s) ==
  \E i \in 1..Len(s) :
    \/ s[i] \in DivOpenTokens /\ BlankThenClose(s, "</div>", i + 1) > 0
    \/ s[i] \in SpanOpenTokens /\ BlankThenClose(s, "</span>", i + 1) > 0

\* the shells removed once the noise is gone, as the order of the steps asks
ShellsAfterNoise(h) ==
  SubEmptyShell(SubEmptyShell(NoiseRemoved(h), DivOpenTokens, "</div>"),
                SpanOpenTokens, "</span>")

\* C29: the empty shells are removed after the noise: whenever removing the
\* noise of a body and then its empty shells leaves no empty shell, the
\* normalized text of the body holds none either.  The body
\* <div><time datetime="d"></time></div> normalizes to the empty text.
C29_ShellsAfterNoise ==
  \A r \in db["posts"] :
    ~HasEmptyShell(ShellsAfterNoise(r.content)) =>
       ~HasEmptyShell(normalize_content(r.content))


\* ------------------------------------------------------------------------
\* Properties of the write of a post and its links
\* ------------------------------------------------------------------------
\* the link rows of the data a call holds
CategoryLinksOf(w) ==
  LET category_ids == Get(item[w], "categories", <<>>)
  IN { CategoryLink(item[w], category_ids[i], new_version[w]) :
         i \in DOMAIN category_ids }

TagLinksOf(w) ==
  LET tag_ids == Get(item[w], "tags", <<>>)
  IN { TagLink(item[w], tag_ids[i], new_version[w]) : i \in DOMAIN tag_ids }

\* C30: the post version and its category and tag links are committed
\* together or not at all.  The committed tables change in the step of the
\* commit only, which adds the post row and every link row of the data, and
\* in no other step, whether the call goes on, fails or is interrupted; and
\* every link row that is committed belongs to a committed post version.
C30_PostWriteAtomic ==
  [][/\ db' # db =>
          \E w \in Writers :
            /\ pc[w] = "ic_commit"
            /\ db'["posts"] =
                 db["posts"] \cup { RowOf(PostColumns(item[w]), new_version[w]) }
            /\ db'["posts"] # db["posts"]
            /\ db'["post_categories"] = db["post_categories"] \cup CategoryLinksOf(w)
            /\ db'["post_tags"] = db["post_tags"] \cup TagLinksOf(w)
     /\ \A l \in db'["post_categories"] \cup db'["post_tags"] :
          \E r \in db'["posts"] :
            r.wp_id = l.post_wp_id /\ r.version = l.version
    ]_vars

\* a post version is committed with two category links and a tag link, and a
\* call of the first writer has been left by an exception
C30_Witness ==
  /\ Cardinality(db["posts"]) = 1
  /\ Cardinality(db["post_categories"]) = 2
  /\ Cardinality(db["post_tags"]) = 1
  /\ pc[1] = "ic_raised"


\* ------------------------------------------------------------------------
\* Properties of the order of the kinds
\* ------------------------------------------------------------------------
\* C31: the kinds of a run are archived one at a time, in the order given.
\* While the run is at its k-th kind the statistics hold the kinds before it,
\* one entry each and in that order; a call of the archiver is in progress
\* only for the kind at hand, none between two kinds; at the end every kind
\* listed has its entry.
C31_KindsInOrder ==
  main.pc \in {"loop", "archiving", "completed",
               "a_loop", "a_archiving", "a_returned"} =>
    /\ Len(main.all_stats) = main.k - 1
    /\ \A i \in 1..(main.k - 1) : main.all_stats[i][1] = main.content_types[i]
    /\ (Running(1) \/ LegacyRunning(1)) =>
         /\ main.pc \in {"archiving", "a_archiving"}
         /\ content_type[1] = main.content_types[main.k]
    /\ main.pc \in {"completed", "a_returned"} =>
         main.k = Len(main.content_types) + 1

\* archive_all_content has returned the counters of posts and of tags, in
\* that order, each kind having processed an item without error
C31_Witness ==
  /\ main.pc = "a_returned"
  /\ Len(main.all_stats) = 2
  /\ main.all_stats[1][1] = "posts" /\ main.all_stats[2][1] = "tags"
  /\ \A i \in 1..2 : /\ main.all_stats[i][2].processed >= 1
                     /\ main.all_stats[i][2].errors = 0


\* ------------------------------------------------------------------------
\* Properties of the counters
\* ------------------------------------------------------------------------
\* the rows of a table that are first versions
FirstVersions(table) == { r \in table : r.version = 1 }

\* the item at hand is counted as processed and its outcome is still open
OutcomeOpen(w) ==
  IF pc[w] \in {"get_version", "insert", "except"} THEN 1 ELSE 0

\* C32: the counters of a run of a single writer match the store.  They
\* start at zero with the run; from then on every step of the run appends as
\* many rows to the table of its kind as it adds to new + updated and as many
\* first versions as it adds to new, so that at the end of the run the rows
\* appended are new + updated and the first versions appended are new.  Every
\* item counted in processed has gone to new, to updated or to errors, or was
\* unchanged, never to two of them: new + updated <= processed.
C32_CountersMatchStore ==
  [][\A w \in Writers :
       /\ (~Running(w) /\ Running(w)') =>
            (stats'[w] = ZeroStats /\ db' = db)
       /\ (Running(w) /\ pc'[w] # "interrupted") =>
            LET appended == db'[content_type[w]] \ db[content_type[w]]
            IN /\ db[content_type[w]] \subseteq db'[content_type[w]]
               /\ Cardinality(appended)
                    = (stats'[w].new + stats'[w].updated)
                        - (stats[w].new + stats[w].updated)
               /\ Cardinality(FirstVersions(appended))
                    = stats'[w].new - stats[w].new
               /\ stats[w].new + stats[w].updated + stats[w].errors
                    + OutcomeOpen(w) <= stats[w].processed
               /\ pc'[w] = "done" =>
                    stats'[w].new + stats'[w].updated <= stats'[w].processed
    ]_vars

\* a run has ended with an item new, one updated
\* and one that added no row
C32_Witness ==
  /\ pc[1] = "done"
  /\ stats[1].new = 1 /\ stats[1].updated = 1
  /\ stats[1].processed >= 3
  /\ Cardinality(db[content_type[1]]) >= 2


\* ------------------------------------------------------------------------
\* Properties of change detection
\* ------------------------------------------------------------------------
\* the row of the highest version stored for the item at hand
TopRow(w) ==
  LET rows == { r \in db[content_type[w]] : r.wp_id = item[w].id }
  IN CHOOSE r \in rows : \A q \in rows : q.version <= r.version

\* C33: change detection compares with the latest version only.  For an item
\* that is stored already the fingerprint read is that of the row of the
\* highest version, whatever the earlier versions hold: the item goes on to
\* be stored when its fingerprint differs from that one, and is left alone
\* otherwise; the row appended is one version above it.  Content that goes
\* A, B, A over three runs is stored as versions 1 (A), 2 (B) and 3 (A).
C33_LatestOnly ==
  [][\A w \in Writers :
       /\ ( /\ pc[w] = "item" /\ pc'[w] # "interrupted"
            /\ "id" \in DOMAIN item[w]
            /\ \E r \in db[content_type[w]] : r.wp_id = item[w].id ) =>
            IF TopRow(w).content_hash # content_data(w).content_hash
            THEN /\ pc'[w] = "get_version"
                 /\ existing_hash'[w] = TopRow(w).content_hash
            ELSE pc'[w] \notin {"get_version", "insert"}
       /\ ( /\ pc[w] = "insert" /\ new_version[w] > 1 ) =>
            \A r \in db'[content_type[w]] \ db[content_type[w]] :
              /\ r.wp_id = item[w].id
              /\ r.version = TopRow(w).version + 1
              /\ r.content_hash # TopRow(w).content_hash
    ]_vars

\* a post stored as A, then B, then A again
C33_Witness ==
  /\ pc[1] = "done"
  /\ \E a, b, c \in db["posts"] :
       /\ a.wp_id = b.wp_id /\ b.wp_id = c.wp_id
       /\ a.version = 1 /\ b.version = 2 /\ c.version = 3
       /\ a.content_hash = c.content_hash
       /\ a.content_hash # b.content_hash


\* ------------------------------------------------------------------------
\* Properties of the limit
\* ------------------------------------------------------------------------
\* C34: a run with a limit L >= 1 never has more than L items processed,
\* whatever the remote returns and whichever items raise.
C34_LimitBoundsProcessed ==
  \A w \in Writers :
    Truthy(limit[w]) => stats[w].processed <= limit[w][1]


\* ------------------------------------------------------------------------
\* Properties of the users
\* ------------------------------------------------------------------------
\* C35: users are versioned like every other kind.  With a store that takes
\* every statement it can bind, the first sighting of a well-formed user
\* (id, name, url, description and a map of avatars) appends the version-1
\* row of that user and counts as new, not as an error.
C35_UsersVersioned ==
  [][\A w \in Writers :
       ( /\ content_type[w] = "users"
         /\ pc[w] = "insert" /\ new_version[w] = 1
         /\ pc'[w] # "insert" ) =>
         /\ \E r \in db'["users"] \ db["users"] :
              r.wp_id = item[w].id /\ r.version = 1
         /\ stats'[w].new = stats[w].new + 1
         /\ stats'[w].errors = stats[w].errors
         /\ pc'[w] # "except"
    ]_vars


\* the fields of a user, a category or a tag that its fingerprint covers
Triple(ct, rec) ==
  << Get(rec, "name", <<>>), Get(rec, "description", <<>>),
     IF ct = "users" THEN Get(rec, "url", <<>>) ELSE Get(rec, "slug", <<>>) >>

\* C36: every field change of a user or a tag is detected.  A re-fetch whose
\* (name, description, url-or-slug) differs from that of the latest stored
\* version, be it only by the place where the name ends and the description
\* begins, has another fingerprint than that version and goes on to be stored
\* as an update.
C36_FieldChangeDetected ==
  [][\A w \in Writers :
       ( /\ content_type[w] \in {"users", "tags"}
         /\ pc[w] = "item" /\ pc'[w] # "item"
         /\ "id" \in DOMAIN item[w]
         /\ \E r \in db[content_type[w]] : r.wp_id = item[w].id
         /\ Triple(content_type[w], TopRow(w))
              # Triple(content_type[w], item[w]) ) =>
         /\ content_data(w).content_hash # TopRow(w).content_hash
         /\ pc'[w] = "get_version"
    ]_vars


\* ------------------------------------------------------------------------
\* Properties of the kinds
\* ------------------------------------------------------------------------
\* the rows the table of the run's kind holds for the item at hand
OwnRows(w) == { r \in db[content_type[w]] : r.wp_id = item[w].id }

\* C37: kinds are isolated.  Every step of a run of one kind leaves the
\* tables of the other kinds and the session log as they are; an item whose
\* id is stored for another kind only is a first sighting, and the row a step
\* appends is one version above the latest row of the same id in the table of
\* its own kind, version 1 when there is none.
C37_KindsIsolated ==
  [][\A w \in Writers :
       Running(w) =>
         /\ \A k \in Kinds \ {content_type[w]} : db'[k] = db[k]
         /\ sessions' = sessions
         /\ ( /\ pc[w] = "item" /\ pc'[w] # "item"
              /\ "id" \in DOMAIN item[w]
              /\ OwnRows(w) = {} ) =>
              (pc'[w] = "insert" /\ new_version'[w] = 1)
         /\ \A r \in db'[content_type[w]] \ db[content_type[w]] :
              /\ r.wp_id = item[w].id
              /\ r.version = IF OwnRows(w) = {} THEN 1
                             ELSE TopRow(w).version + 1
    ]_vars

\* posts and tags hold the same id, the post in two versions and the tag in
\* one
C37_Witness ==
  /\ main.pc = "a_returned"
  /\ \E p \in db["posts"], t \in db["tags"] :
       /\ p.wp_id = t.wp_id
       /\ p.version = 2 /\ t.version = 1
  /\ \A t \in db["tags"] : t.version = 1


\* ------------------------------------------------------------------------
\* Properties of the comment levels
\* ------------------------------------------------------------------------
\* C38: the computation of the nesting levels ends for every list of
\* comments, also when a comment is its own parent or the parents form a
\* cycle.  The walk from a comment to its ancestors goes from one comment of
\* the list to another, so a walk that ends has taken fewer steps than the
\* list has comments: level never passes the length of the list.
C38_LevelsTerminate ==
  pc[1] \in {"l_for", "l_while", "l_done"} =>
    db.level <= Len(db.comments)


\* ------------------------------------------------------------------------
\* Properties of a limit of 0
\* ------------------------------------------------------------------------
\* the kind of the answer the tape holds next, "none" at its end
NextTaped ==
  IF remote.pos < Len(remote.tape) THEN remote.tape[remote.pos + 1].kind
  ELSE "none"

\* C39: a limit of 0 is no limit.  A run with limit = 0 asks for pages of
\* 100 items, as a run without limit does; given the answers a run without
\* limit got, it asks for what that run asked, to the last answer, and has
\* processed as many items when it returns.
C39_ZeroIsNoLimit ==
  /\ remote.mode = "record" =>
       (limit[1] = None /\ per_page(limit[1]) = DefaultPerPage)
  /\ remote.mode = "replay" =>
       /\ limit[1] = Some(0)
       /\ per_page(limit[1]) = DefaultPerPage
       /\ pc[1] = "fetch" => NextTaped \in {"page", "fail"}
       /\ (pc[1] = "for" /\ idx[1] < response[1]) => NextTaped = "item"
       /\ pc[1] = "page_end" => NextTaped = "total"
       /\ pc[1] = "done" =>
            /\ NextTaped = "none"
            /\ stats[1].processed = remote.first.processed

\* the run with limit = 0 has gone through two pages and both their items
C39_Witness ==
  /\ remote.mode = "replay"
  /\ limit[1] = Some(0)
  /\ pc[1] = "done"
  /\ stats[1].processed = 2
  /\ \E i \in DOMAIN remote.tape : remote.tape[i] = [kind |-> "total", val |-> 2]
  /\ remote.pos = Len(remote.tape)

====
